---- MODULE Spec2Model ----
(***************************************************************************)
(* Schema extractor: snapshot normalizer (extractSchema), interface mapper  *)
(* (mapInterfaces), snapshot diff engine (diffSchemas) and the snapshot     *)
(* store of the HTTP server.                                                *)
(*                                                                         *)
(* Conventions: a JavaScript array is a sequence; a value that may be null  *)
(* (string | null, object | null) is a sequence of length 0 (null) or 1;    *)
(* a JavaScript Map is a sequence of <<key, value>> pairs with distinct     *)
(* keys, in insertion order.                                                *)
(***************************************************************************)
EXTENDS Integers, Sequences, FiniteSets, TLC

VARIABLES
    pc,         \* position of the operation under study
    snapA,      \* diffSchemas: base snapshot a
    snapB,      \* diffSchemas: candidate snapshot b
    report,     \* diffSchemas: the returned report (<<>> before the call)
    request,    \* extractSchema: the filters of the request
    catalog,    \* extractSchema: the rows the catalog queries return
    result,     \* extractSchema: the returned snapshot (<<>> before the return)
    snapshots,  \* server: the snapshot store, a Map from snapshot id to snapshot
    disk,       \* server: the content of snapshots.json
    reply,      \* server: the last reply sent
    mapArgs,    \* mapInterfaces: the arguments (interfaces, tables)
    mapResult,  \* mapInterfaces: the returned value (<<>> before the return)
    mysqlRows,  \* extractMysql: the rows the INFORMATION_SCHEMA queries return
    mysqlResult, \* extractMysql: the returned snapshot (<<>> before the return)
    scanZip,    \* scanInterfacesFromZip: the entries of the archive
    scanResult, \* scanInterfacesFromZip: the returned list (<<>> before the return)
    inflight,   \* server under concurrent requests: the requests and how far each handler has run
    client      \* extractSchema statement by statement: the pg connection and where the function is

diffVars == <<snapA, snapB, report>>

extractVars == <<request, catalog, result>>

serverVars == <<snapshots, disk, reply>>

mapVars == <<mapArgs, mapResult>>

vars == <<pc, snapA, snapB, report, request, catalog, result, snapshots, disk, reply,
         mapArgs, mapResult,
         mysqlRows, mysqlResult,
         scanZip, scanResult,
         inflight,
         client>>

\* the variables of an operation that is not under study keep their initial value
ExtractIdle == request = <<>> /\ catalog = <<>> /\ result = <<>>

ServerIdle == snapshots = <<>> /\ disk = <<>> /\ reply = <<>>

DiffIdle == snapA = <<>> /\ snapB = <<>> /\ report = <<>>

MapIdle == mapArgs = <<>> /\ mapResult = <<>>

mysqlVars == <<mysqlRows, mysqlResult>>

MysqlIdle == mysqlRows = <<>> /\ mysqlResult = <<>>

scanVars == <<scanZip, scanResult>>

ScanIdle == scanZip = <<>> /\ scanResult = <<>>

concVars == <<inflight>>

ConcIdle == inflight = <<>>

txnVars == <<client>>

TxnIdle == client = <<>>

-----------------------------------------------------------------------------
(* Generic helpers: arrays, strings, Map.                                   *)

Range(s) == {s[i] : i \in 1..Len(s)}

SeqsUpTo(S, n) == UNION {[1..k -> S] : k \in 0..n}

RECURSIVE Join(_, _)
\* Array.prototype.join(sep)
Join(s, sep) ==
    IF Len(s) = 0 THEN ""
    ELSE IF Len(s) = 1 THEN s[1]
    ELSE s[1] \o sep \o Join(Tail(s), sep)

\* String.prototype.toLowerCase on the identifiers the model uses
toLowerCase(s) ==
    CASE s = "Users"  -> "users"
      [] s = "USERS"  -> "users"
      [] s = "Orders" -> "orders"
      [] s = "Widget" -> "widget"
      [] s = "ID"     -> "id"
      [] s = "Id"     -> "id"
      [] s = "Email"  -> "email"
      [] s = "TEXT"   -> "text"
      [] s = "Text"   -> "text"
      [] s = "CITEXT" -> "citext"
      [] s = "INTEGER" -> "integer"
      [] s = "Integer" -> "integer"
      [] OTHER        -> s

\* Map.prototype.has
MapHas(m, k) == \E i \in 1..Len(m) : m[i][1] = k

\* Map.prototype.get, for a key the map has
MapGet(m, k) == m[CHOOSE i \in 1..Len(m) : m[i][1] = k][2]

\* Map.prototype.set: an existing key keeps its place and takes the new value
MapSet(m, k, v) ==
    IF MapHas(m, k)
    THEN [i \in 1..Len(m) |-> IF m[i][1] = k THEN <<k, v>> ELSE m[i]]
    ELSE Append(m, <<k, v>>)

\* Map.prototype.delete
MapDelete(m, k) == SelectSeq(m, LAMBDA e : e[1] # k)

RECURSIVE MapFrom(_)
\* new Map(entries): entries are set one after the other
MapFrom(entries) ==
    IF Len(entries) = 0 THEN <<>>
    ELSE LET e == entries[Len(entries)]
         IN  MapSet(MapFrom(SubSeq(entries, 1, Len(entries) - 1)), e[1], e[2])

\* Array.from(map.keys())
MapKeys(m) == [i \in 1..Len(m) |-> m[i][1]]

\* Array.from(map.values())
MapValues(m) == [i \in 1..Len(m) |-> m[i][2]]

\* Array.from(new Set(arr)): first occurrences, in order
Distinct(s) == MapKeys(MapFrom([i \in 1..Len(s) |-> <<s[i], s[i]>>]))

\* value || "" for a string | null
OrEmpty(v) == IF v = <<>> THEN "" ELSE v[1]

-----------------------------------------------------------------------------
(* snapshotDiff: identity keys.                                             *)

keyTable(t) == t.schema \o "." \o t.name

keyIndex(i) == i.schema \o "." \o i.table \o "." \o i.name

keyEnum(e) == e.schema \o "." \o e.name

\* keyRel with the cardinality tag in the key
keyRelTyped(r) ==
    r.from.schema \o "." \o r.from.table \o "->" \o
    r.to.schema \o "." \o r.to.table \o "." \o r.fkName \o "." \o r.type

keyRel(r) ==
    r.from.schema \o "." \o r.from.table \o "->" \o
    r.to.schema \o "." \o r.to.table \o "." \o r.fkName

\* the interface key with the name taken as written
keyInterfaceRaw(i) == i.name

keyInterface(i) == toLowerCase(i.name)

\* The three texts diffSchemas pushes to breakingChanges
MsgNotNull(k, name) == "Column " \o k \o "." \o name \o " changed to NOT NULL"

MsgType(k, name, ta, tb) ==
    "Column " \o k \o "." \o name \o " type changed from " \o ta \o " to " \o tb

MsgRemoved(k, name) == "Column " \o k \o "." \o name \o " was removed"

-----------------------------------------------------------------------------
(* snapshotDiff: diffSchemas.                                               *)

RECURSIVE Flatten(_)
\* the concatenation of the arrays ss[1], ..., ss[n]: what a loop pushes, in order
Flatten(ss) == IF Len(ss) = 0 THEN <<>> ELSE ss[1] \o Flatten(Tail(ss))

\* new Map(a.tables.map((t) => [keyTable(t), t]))
TableMap(tables) ==
    MapFrom([i \in 1..Len(tables) |-> <<keyTable(tables[i]), tables[i]>>])

\* new Map(t.columns.map((c) => [c.name, c]))
ColumnMap(columns) ==
    MapFrom([i \in 1..Len(columns) |-> <<columns[i].name, columns[i]>>])

EnumMap(enums) ==
    MapFrom([i \in 1..Len(enums) |-> <<keyEnum(enums[i]), enums[i]>>])

IndexMap(indexes) ==
    MapFrom([i \in 1..Len(indexes) |-> <<keyIndex(indexes[i]), indexes[i]>>])

RelationshipMap(rels) ==
    MapFrom([i \in 1..Len(rels) |-> <<keyRel(rels[i]), rels[i]>>])

InterfaceMap(interfaces) ==
    MapFrom([i \in 1..Len(interfaces) |-> <<keyInterface(interfaces[i]), interfaces[i]>>])

\* Array.from(mb.keys()).filter((k) => !ma.has(k))
KeysMissingFrom(mb, ma) == SelectSeq(MapKeys(mb), LAMBDA k : ~MapHas(ma, k))

\* for (const k of tablesA.keys()) if (!tablesB.has(k)) removedTables.push(k)
RemovedTables(tablesA, tablesB) == KeysMissingFrom(tablesA, tablesB)

\* the loop with the two maps taken the wrong way round
AddedTablesSwapped(tablesA, tablesB) == KeysMissingFrom(tablesA, tablesB)

\* for (const k of tablesB.keys()) if (!tablesA.has(k)) addedTables.push(k)
AddedTables(tablesA, tablesB) == KeysMissingFrom(tablesB, tablesA)

\* the condition without the nullability comparison
ColumnChangedNoNullable(ca, cb) ==
    \/ ca.type # cb.type
    \/ OrEmpty(ca.default) # OrEmpty(cb.default)

\* the condition with the default of a taken as it is (no || "")
ColumnChangedRawDefault(ca, cb) ==
    \/ ca.type # cb.type
    \/ ca.nullable # cb.nullable
    \/ ca.default # <<OrEmpty(cb.default)>>

\* the condition with the type texts compared ignoring letter case
ColumnChangedTypeIgnoreCase(ca, cb) ==
    \/ toLowerCase(ca.type) # toLowerCase(cb.type)
    \/ ca.nullable # cb.nullable
    \/ OrEmpty(ca.default) # OrEmpty(cb.default)

\* the condition under which a column of both versions is pushed to changedCols
ColumnChanged(ca, cb) ==
    \/ ca.type # cb.type
    \/ ca.nullable # cb.nullable
    \/ OrEmpty(ca.default) # OrEmpty(cb.default)

\* the body with the type check as an else branch of the NOT NULL check
BreakingOfChangedElse(k, name, ca, cb) ==
    IF ~cb.nullable /\ ca.nullable THEN <<MsgNotNull(k, name)>>
    ELSE IF ca.type # cb.type THEN <<MsgType(k, name, ca.type, cb.type)>>
    ELSE <<>>

\* the body with the NOT NULL check taken for any change of nullability
BreakingOfChangedAnyNull(k, name, ca, cb) ==
    (IF ca.nullable # cb.nullable THEN <<MsgNotNull(k, name)>> ELSE <<>>)
    \o (IF ca.type # cb.type THEN <<MsgType(k, name, ca.type, cb.type)>> ELSE <<>>)

\* what the body of that condition pushes to breakingChanges
BreakingOfChanged(k, name, ca, cb) ==
    (IF ~cb.nullable /\ ca.nullable THEN <<MsgNotNull(k, name)>> ELSE <<>>)
    \o (IF ca.type # cb.type THEN <<MsgType(k, name, ca.type, cb.type)>> ELSE <<>>)

\* one pass of the loop over tablesB, for a table key k that tablesA has too
ColumnDiff(k, ta, tb) ==
    LET colA == ColumnMap(ta.columns)
        colB == ColumnMap(tb.columns)
        namesB == MapKeys(colB)
        both(name) == MapHas(colA, name)
        chg(name)  == both(name)
                      /\ ColumnChanged(MapGet(colA, name), MapGet(colB, name))
        addedCols   == SelectSeq(namesB, LAMBDA n : ~both(n))
        changedCols == SelectSeq(namesB, chg)
        removedCols == SelectSeq(MapKeys(colA), LAMBDA n : ~MapHas(colB, n))
        brkB == Flatten([i \in 1..Len(namesB) |->
                    IF chg(namesB[i])
                    THEN BreakingOfChanged(k, namesB[i], MapGet(colA, namesB[i]),
                                           MapGet(colB, namesB[i]))
                    ELSE <<>>])
        brkA == [i \in 1..Len(removedCols) |-> MsgRemoved(k, removedCols[i])]
        any  == Len(addedCols) + Len(removedCols) + Len(changedCols) > 0
    IN  [columnChanges |->
            IF any THEN << [table |-> k, added |-> addedCols,
                            removed |-> removedCols, changed |-> changedCols] >>
            ELSE <<>>,
         changed |->
            IF any THEN << k \o " (" \o
                           Join(Distinct(addedCols \o removedCols \o changedCols), ",")
                           \o ")" >>
            ELSE <<>>,
         breaking |-> brkB \o brkA]

\* the loop over tablesB run also for the tables only A has, each against a
\* table without columns
TablesOfEither(tablesA, tablesB) ==
    LET common == SelectSeq(tablesB, LAMBDA e : MapHas(tablesA, e[1]))
        gone   == SelectSeq(tablesA, LAMBDA e : ~MapHas(tablesB, e[1]))
    IN  [i \in 1..Len(common) |->
            <<common[i][1], MapGet(tablesA, common[i][1]), common[i][2]>>]
        \o [i \in 1..Len(gone) |->
              <<gone[i][1], gone[i][2], [gone[i][2] EXCEPT !.columns = <<>>]>>]

\* for (const [k, tb] of tablesB.entries()) { const ta = tablesA.get(k);
\* if (!ta) continue; ... }: the <<k, ta, tb>> the body of the loop runs for
TablesOfBoth(tablesA, tablesB) ==
    LET common == SelectSeq(tablesB, LAMBDA e : MapHas(tablesA, e[1]))
    IN  [i \in 1..Len(common) |->
            <<common[i][1], MapGet(tablesA, common[i][1]), common[i][2]>>]

diffSchemas(a, b) ==
    LET tablesA == TableMap(a.tables)
        tablesB == TableMap(b.tables)
        common  == TablesOfBoth(tablesA, tablesB)
        perTable == [i \in 1..Len(common) |->
                        ColumnDiff(common[i][1], common[i][2], common[i][3])]
        enumsA == EnumMap(a.enums)
        enumsB == EnumMap(b.enums)
        idxA == IndexMap(a.indexes)
        idxB == IndexMap(b.indexes)
        relA == RelationshipMap(a.relationships)
        relB == RelationshipMap(b.relationships)
        interfacesA == InterfaceMap(a.interfaces)
        interfacesB == InterfaceMap(b.interfaces)
    IN  [tables |->
            [added   |-> AddedTables(tablesA, tablesB),
             removed |-> RemovedTables(tablesA, tablesB),
             changed |-> Flatten([i \in 1..Len(common) |-> perTable[i].changed]),
             columnChanges |->
                Flatten([i \in 1..Len(common) |-> perTable[i].columnChanges])],
         enums |-> [added   |-> KeysMissingFrom(enumsB, enumsA),
                    removed |-> KeysMissingFrom(enumsA, enumsB)],
         indexes |-> [added   |-> KeysMissingFrom(idxB, idxA),
                      removed |-> KeysMissingFrom(idxA, idxB)],
         relationships |-> [added   |-> KeysMissingFrom(relB, relA),
                            removed |-> KeysMissingFrom(relA, relB)],
         interfaces |-> [added   |-> KeysMissingFrom(interfacesB, interfacesA),
                         removed |-> KeysMissingFrom(interfacesA, interfacesB)],
         breaking |-> Flatten([i \in 1..Len(common) |-> perTable[i].breaking])]

-----------------------------------------------------------------------------
(* Values of the snapshot model (types.ts).                                 *)

PgColumn(name, type, nullable, default) ==
    [name |-> name, type |-> type, nullable |-> nullable, default |-> default,
     isPrimaryKey |-> FALSE, isUnique |-> FALSE, isGenerated |-> FALSE,
     comment |-> <<>>]

PgTable(schema, name, columns) ==
    [name |-> name, schema |-> schema, comment |-> <<>>, columns |-> columns,
     primaryKey |-> <<>>, uniques |-> <<>>, checks |-> <<>>, foreignKeys |-> <<>>]

PgEnum(schema, name, values) ==
    [name |-> name, schema |-> schema, values |-> values, comment |-> <<>>]

PgIndex(schema, table, name, columns) ==
    [name |-> name, schema |-> schema, table |-> table, columns |-> columns,
     isUnique |-> TRUE, isPrimary |-> FALSE, method |-> <<"btree">>,
     definition |-> <<>>]

PgRelationship(type, fromSchema, fromTable, cols, toSchema, toTable, fkName) ==
    [name |-> fromTable \o "_" \o toTable, type |-> type,
     from |-> [table |-> fromTable, schema |-> fromSchema, columns |-> cols],
     to   |-> [table |-> toTable, schema |-> toSchema, columns |-> <<"id">>],
     fkName |-> fkName]

InterfaceDef(name, source, fields) ==
    [name |-> name, source |-> source, fields |-> fields, mappedTo |-> <<>>]

Meta(includeSchemas, excludeTables) ==
    [db |-> [engine |-> "postgres"],
     source |-> [filters |-> [includeSchemas |-> includeSchemas,
                              excludeTables |-> excludeTables]]]

SchemaExport(meta, enums, tables, views, relationships, indexes, interfaces, warnings) ==
    [meta |-> meta, enums |-> enums, tables |-> tables, views |-> views,
     relationships |-> relationships, indexes |-> indexes,
     interfaces |-> interfaces, warnings |-> warnings]

-----------------------------------------------------------------------------
(* The snapshots diffSchemas is given.                                      *)

\* longest column list of a table of a snapshot under diff
MaxCols == 2

\* longest table list of a snapshot under diff
MaxTables == 2

DiffColumns ==
    { PgColumn("id", "int", FALSE, <<>>),
      PgColumn("id", "text", FALSE, <<>>),
      PgColumn("id", "int", TRUE, <<>>),
      PgColumn("id", "int", TRUE, <<"0">>),
      PgColumn("email", "text", TRUE, <<>>),
      PgColumn("email", "text", TRUE, <<"">>),
      PgColumn("email", "TEXT", TRUE, <<>>) }

DiffTables ==
    { PgTable("public", "users", <<PgColumn("id", "int", FALSE, <<>>)>>),
      PgTable("public", "users", <<PgColumn("id", "text", TRUE, <<>>),
                                   PgColumn("email", "text", FALSE, <<>>)>>),
      PgTable("public", "orders", <<PgColumn("id", "int", TRUE, <<>>)>>) }

\* the entities other than tables: nothing, one of each, or a second set that
\* repeats keys, moves the endpoint of fk_user and renames by letter case
DiffRest ==
    { [enums |-> <<>>, indexes |-> <<>>, relationships |-> <<>>, interfaces |-> <<>>],
      [enums |-> <<PgEnum("public", "status", <<"on", "off">>)>>,
       indexes |-> <<PgIndex("public", "users", "users_pkey", <<"id">>)>>,
       relationships |->
          <<PgRelationship("many_to_one", "public", "orders", <<"user_id">>,
                           "public", "users", "fk_user")>>,
       interfaces |-> <<InterfaceDef("Users", "src/a.ts:1", <<>>)>>],
      [enums |-> <<PgEnum("public", "status", <<"on">>),
                   PgEnum("public", "status", <<"on", "off">>)>>,
       indexes |-> <<PgIndex("public", "users", "users_pkey", <<"id">>),
                     PgIndex("public", "orders", "users_pkey", <<"id">>)>>,
       relationships |->
          <<PgRelationship("many_to_one", "app", "orders", <<"user_id">>,
                           "public", "users", "fk_user"),
            PgRelationship("one_to_one", "public", "orders", <<"id">>,
                           "public", "users", "fk_user")>>,
       interfaces |-> <<InterfaceDef("USERS", "src/b.ts:1", <<>>),
                        InterfaceDef("Widget", "src/b.ts:9", <<>>)>>] }

DiffSnapshot(tables, rest) ==
    SchemaExport(Meta(<<"public">>, <<>>), rest.enums, tables, <<>>,
                 rest.relationships, rest.indexes, rest.interfaces, <<>>)

NoRest == [enums |-> <<>>, indexes |-> <<>>, relationships |-> <<>>, interfaces |-> <<>>]

\* one table public.users under every column list, and every table list with
\* every choice of the other entities
DiffSnapshots ==
    { DiffSnapshot(<<PgTable("public", "users", cols)>>, NoRest) :
         cols \in SeqsUpTo(DiffColumns, MaxCols) }
    \cup
    { DiffSnapshot(tables, rest) :
         tables \in SeqsUpTo(DiffTables, MaxTables), rest \in DiffRest }

DiffInit ==
    /\ pc = "diff"
    /\ snapA \in DiffSnapshots
    /\ snapB \in DiffSnapshots
    /\ report = <<>>
    /\ ExtractIdle
    /\ ServerIdle
    /\ MapIdle
    /\ MysqlIdle
    /\ ScanIdle
    /\ ConcIdle
    /\ TxnIdle

\* GET /snapshots/:id/diff/:otherId on two stored snapshots: diffSchemas(a, b)
DiffCall ==
    /\ pc = "diff"
    /\ report' = diffSchemas(snapA, snapB)
    /\ pc' = "diffed"
    /\ UNCHANGED <<snapA, snapB, extractVars, serverVars, mapVars, mysqlVars, scanVars, concVars, txnVars>>

DiffNext == DiffCall

SpecDiff == DiffInit /\ [][DiffNext]_vars

-----------------------------------------------------------------------------
(* extract.ts: helpers of the normalizer.                                   *)

\* ACTION_MAP[code] || null
ActionOf(code) ==
    CASE code = "a" -> <<"NO ACTION">>
      [] code = "r" -> <<"RESTRICT">>
      [] code = "c" -> <<"CASCADE">>
      [] code = "n" -> <<"SET NULL">>
      [] code = "d" -> <<"SET DEFAULT">>
      [] OTHER      -> <<>>

normalizeType(dataType, udtName) ==
    IF dataType = "USER-DEFINED" THEN udtName ELSE dataType

\* normalizeColumns on an aggregated catalog array, whose elements are a name
\* or NULL: the elements that are strings
normalizeColumns(value) ==
    Flatten([i \in 1..Len(value) |-> value[i]])

classifyRelationship(fromColumns, tableUniques, pkColumns) ==
    LET colsKey   == Join(fromColumns, "|")
        hasUnique == \E i \in 1..Len(tableUniques) :
                        Join(tableUniques[i].columns, "|") = colsKey
        isPk      == Join(pkColumns, "|") = colsKey
    IN  IF hasUnique \/ isPk THEN "one_to_one" ELSE "many_to_one"

\* lowercaseMap(arr, (c) => c.name)
lowercaseMap(columns) ==
    MapFrom([i \in 1..Len(columns) |-> <<toLowerCase(columns[i].name), columns[i]>>])

-----------------------------------------------------------------------------
(* extract.ts: mapInterfaces.                                               *)

WarningDef(type, message, source) ==
    [type |-> type, message |-> message, source |-> source]

\* the search skipped for an interface that already carries a mapping
FindTableIfUnmapped(iface, tables) ==
    LET hits == SelectSeq(tables,
                    LAMBDA t : toLowerCase(t.name) = toLowerCase(iface.name))
    IN  IF Len(hits) = 0 \/ iface.mappedTo # <<>> THEN <<>> ELSE <<hits[1]>>

\* the last table of that name instead of the first
FindTableLast(iface, tables) ==
    LET hits == SelectSeq(tables,
                    LAMBDA t : toLowerCase(t.name) = toLowerCase(iface.name))
    IN  IF Len(hits) = 0 THEN <<>> ELSE <<hits[Len(hits)]>>

\* tables.find((t) => t.name.toLowerCase() === iface.name.toLowerCase()):
\* the first such table, or nothing
FindTable(iface, tables) ==
    LET hits == SelectSeq(tables,
                    LAMBDA t : toLowerCase(t.name) = toLowerCase(iface.name))
    IN  IF Len(hits) = 0 THEN <<>> ELSE <<hits[1]>>

RECURSIVE FieldLoopExactType(_, _, _)
\* the loop with the two type texts compared as written
FieldLoopExactType(fields, i, acc) ==
    IF i > Len(fields) THEN acc
    ELSE LET f   == fields[i]
             key == toLowerCase(f.name)
         IN  IF ~MapHas(acc.tableCols, key)
             THEN FieldLoopExactType(fields, i + 1,
                      [acc EXCEPT !.missingInTable = Append(@, f.name)])
             ELSE LET col == MapGet(acc.tableCols, key)
                  IN  FieldLoopExactType(fields, i + 1,
                        [acc EXCEPT
                           !.nullableMismatches =
                               IF col.nullable # f.nullable THEN Append(@, f.name) ELSE @,
                           !.typeMismatches =
                               IF col.type # f.type THEN Append(@, f.name) ELSE @,
                           !.tableCols = MapDelete(@, key)])

RECURSIVE FieldLoop(_, _, _)
\* the loop over iface.fields: acc holds tableCols and the three lists
FieldLoop(fields, i, acc) ==
    IF i > Len(fields) THEN acc
    ELSE LET f   == fields[i]
             key == toLowerCase(f.name)
         IN  IF ~MapHas(acc.tableCols, key)
             THEN FieldLoop(fields, i + 1,
                      [acc EXCEPT !.missingInTable = Append(@, f.name)])
             ELSE LET col == MapGet(acc.tableCols, key)
                  IN  FieldLoop(fields, i + 1,
                        [acc EXCEPT
                           !.nullableMismatches =
                               IF col.nullable # f.nullable THEN Append(@, f.name) ELSE @,
                           !.typeMismatches =
                               IF toLowerCase(col.type) # toLowerCase(f.type)
                               THEN Append(@, f.name) ELSE @,
                           !.tableCols = MapDelete(@, key)])

\* the field-level diff of an interface against its matched table
FieldDiff(iface, match) ==
    LET done == FieldLoop(iface.fields, 1,
                    [tableCols |-> lowercaseMap(match.columns),
                     missingInTable |-> <<>>, nullableMismatches |-> <<>>,
                     typeMismatches |-> <<>>])
    IN  [missingInTable |-> done.missingInTable,
         extraInTable |-> MapKeys(done.tableCols),
         nullableMismatches |-> done.nullableMismatches,
         typeMismatches |-> done.typeMismatches]

\* the callback with extraInTable left out of the test that guards the warning
MapOneNoExtraTest(iface, tables) ==
    LET found == FindTable(iface, tables)
    IN  IF found # <<>>
        THEN LET match == found[1]
                 fd    == FieldDiff(iface, match)
             IN  [iface |->
                     [iface EXCEPT !.mappedTo =
                        << [table |-> match.name, schema |-> match.schema,
                            confidence |-> "0.9", fieldDiff |-> fd] >>],
                  warnings |->
                     IF Len(fd.missingInTable)
                        + Len(fd.nullableMismatches) + Len(fd.typeMismatches) > 0
                     THEN << WarningDef("interface_field_mismatch",
                                "Interface " \o iface.name \o " differs from table "
                                \o match.schema \o "." \o match.name,
                                iface.source) >>
                     ELSE <<>>]
        ELSE [iface |-> [iface EXCEPT !.mappedTo = <<>>],
              warnings |->
                 << WarningDef("interface_unmapped",
                        "Interface " \o iface.name \o " has no matching table",
                        iface.source) >>]

\* one call of the callback of interfaces.map: the mapped interface and the
\* warnings it pushes
MapOne(iface, tables) ==
    LET found == FindTable(iface, tables)
    IN  IF found # <<>>
        THEN LET match == found[1]
                 fd    == FieldDiff(iface, match)
             IN  [iface |->
                     [iface EXCEPT !.mappedTo =
                        << [table |-> match.name, schema |-> match.schema,
                            confidence |-> "0.9", fieldDiff |-> fd] >>],
                  warnings |->
                     IF Len(fd.missingInTable) + Len(fd.extraInTable)
                        + Len(fd.nullableMismatches) + Len(fd.typeMismatches) > 0
                     THEN << WarningDef("interface_field_mismatch",
                                "Interface " \o iface.name \o " differs from table "
                                \o match.schema \o "." \o match.name,
                                iface.source) >>
                     ELSE <<>>]
        ELSE [iface |-> [iface EXCEPT !.mappedTo = <<>>],
              warnings |->
                 << WarningDef("interface_unmapped",
                        "Interface " \o iface.name \o " has no matching table",
                        iface.source) >>]

\* the map that stops after the first interface without a table
mapInterfacesUntilUnmapped(interfaces, tables) ==
    LET each == [i \in 1..Len(interfaces) |-> MapOne(interfaces[i], tables)]
        stops == { i \in 1..Len(interfaces) : each[i].iface.mappedTo = <<>> }
        last == IF stops = {} THEN Len(interfaces)
                ELSE CHOOSE i \in stops : \A j \in stops : i <= j
    IN  [interfacesMapped |-> [i \in 1..last |-> each[i].iface],
         warnings |-> Flatten([i \in 1..last |-> each[i].warnings])]

mapInterfaces(interfaces, tables) ==
    LET each == [i \in 1..Len(interfaces) |-> MapOne(interfaces[i], tables)]
    IN  [interfacesMapped |-> [i \in 1..Len(interfaces) |-> each[i].iface],
         warnings |-> Flatten([i \in 1..Len(interfaces) |-> each[i].warnings])]

-----------------------------------------------------------------------------
(* extract.ts: extractSchema, from the fetched catalog rows to the snapshot. *)

rowKey(schema, name) == schema \o "." \o name

\* tablesRes.rows.filter((row) => !excludeTables.includes(row.table_name))
FilterTableRows(tablesRes, excludeTables) ==
    SelectSeq(tablesRes, LAMBDA row : row.table_name \notin Range(excludeTables))

\* the loop that fills tablesMap from tableRows
BuildTablesMap(tableRows) ==
    MapFrom([i \in 1..Len(tableRows) |->
        << rowKey(tableRows[i].table_schema, tableRows[i].table_name),
           PgTable(tableRows[i].table_schema, tableRows[i].table_name, <<>>) >>])

ColumnOfRow(row) ==
    [name |-> row.column_name,
     type |-> normalizeType(row.data_type, row.udt_name),
     nullable |-> row.is_nullable = "YES",
     default |-> row.column_default,
     isPrimaryKey |-> FALSE,
     isUnique |-> FALSE,
     isGenerated |-> row.is_generated = "ALWAYS",
     comment |-> row.description]

RECURSIVE AttachColumns(_, _, _)
\* the loop over columnsRes.rows
AttachColumns(rows, i, tablesMap) ==
    IF i > Len(rows) THEN tablesMap
    ELSE LET row == rows[i]
             key == rowKey(row.table_schema, row.table_name)
         IN  IF ~MapHas(tablesMap, key) THEN AttachColumns(rows, i + 1, tablesMap)
             ELSE LET table == MapGet(tablesMap, key)
                  IN  AttachColumns(rows, i + 1,
                        MapSet(tablesMap, key,
                           [table EXCEPT !.columns = Append(@, ColumnOfRow(row))]))

\* the back-fill that flags the first column of the constraint alone
FlagColumnsFirst(columns, cols, flag) ==
    [i \in 1..Len(columns) |->
        IF cols # <<>> /\ columns[i].name = cols[1] /\ flag = "isPrimaryKey"
        THEN [columns[i] EXCEPT !.isPrimaryKey = TRUE]
        ELSE columns[i]]

\* for (const col of table.columns) if (cols.includes(col.name)) col[flag] = true
FlagColumns(columns, cols, flag) ==
    [i \in 1..Len(columns) |->
        IF columns[i].name \in Range(cols)
        THEN IF flag = "isPrimaryKey" THEN [columns[i] EXCEPT !.isPrimaryKey = TRUE]
             ELSE [columns[i] EXCEPT !.isUnique = TRUE]
        ELSE columns[i]]

\* normalizeColumns(table.primaryKey?.columns)
PkColumns(table) ==
    IF table.primaryKey = <<>> THEN <<>> ELSE table.primaryKey[1].columns

ForeignKeyOfRow(row) ==
    [name |-> row.conname,
     columns |-> normalizeColumns(row.columns),
     refTable |-> row.ref_table,
     refSchema |-> row.ref_schema,
     refColumns |-> normalizeColumns(row.ref_columns),
     onUpdate |-> ActionOf(row.confupdtype),
     onDelete |-> ActionOf(row.confdeltype)]

\* the relationship pushed for foreign key fk of table, as the table stands
\* when the row is reached
RelationshipOf(table, fk) ==
    [name |-> table.name \o "_" \o fk.refTable,
     type |-> classifyRelationship(fk.columns, table.uniques, PkColumns(table)),
     from |-> [table |-> table.name, schema |-> table.schema, columns |-> fk.columns],
     to   |-> [table |-> fk.refTable, schema |-> fk.refSchema,
               columns |-> fk.refColumns],
     fkName |-> fk.name]

\* one pass of the loop over constraintsRes.rows, for a row of a retained table
ApplyConstraint(table, row) ==
    LET cols == normalizeColumns(row.columns)
    IN  CASE row.contype = "p" ->
                [table |-> [table EXCEPT
                               !.primaryKey = << [name |-> row.conname, columns |-> cols] >>,
                               !.columns = FlagColumns(@, cols, "isPrimaryKey")],
                 relationships |-> <<>>]
          [] row.contype = "u" ->
                [table |-> [table EXCEPT
                               !.uniques = Append(@, [name |-> row.conname, columns |-> cols]),
                               !.columns = FlagColumns(@, cols, "isUnique")],
                 relationships |-> <<>>]
          [] row.contype = "c" ->
                [table |-> [table EXCEPT
                               !.checks = Append(@, [name |-> row.conname,
                                                     expression |-> OrEmpty(row.condef)])],
                 relationships |-> <<>>]
          [] row.contype = "f" ->
                [table |-> [table EXCEPT !.foreignKeys = Append(@, ForeignKeyOfRow(row))],
                 relationships |-> << RelationshipOf(table, ForeignKeyOfRow(row)) >>]
          [] OTHER ->
                [table |-> table, relationships |-> <<>>]

RECURSIVE AttachConstraints(_, _, _)
\* the loop over constraintsRes.rows: acc holds tablesMap and relationships
AttachConstraints(rows, i, acc) ==
    IF i > Len(rows) THEN acc
    ELSE LET row == rows[i]
             key == rowKey(row.schema, row.table)
         IN  IF ~MapHas(acc.tablesMap, key) THEN AttachConstraints(rows, i + 1, acc)
             ELSE LET step == ApplyConstraint(MapGet(acc.tablesMap, key), row)
                  IN  AttachConstraints(rows, i + 1,
                        [tablesMap |-> MapSet(acc.tablesMap, key, step.table),
                         relationships |-> acc.relationships \o step.relationships])

\* indexesRes.rows.map(...)
IndexesOf(rows) ==
    [i \in 1..Len(rows) |->
        [name |-> rows[i].name, schema |-> rows[i].schema, table |-> rows[i].table,
         columns |-> rows[i].columns, isUnique |-> rows[i].indisunique,
         isPrimary |-> rows[i].indisprimary, method |-> rows[i].method,
         definition |-> rows[i].definition]]

\* enumsRes.rows.map(...)
EnumsOf(rows) ==
    [i \in 1..Len(rows) |->
        [name |-> rows[i].name, schema |-> rows[i].schema,
         values |-> rows[i].values, comment |-> rows[i].comment]]

\* viewsRes.rows.map(...) and the loop over viewColumnsRes.rows
ViewsOf(rows, columnRows) ==
    [i \in 1..Len(rows) |->
        [name |-> rows[i].table_name, schema |-> rows[i].table_schema,
         definition |-> rows[i].view_definition,
         columns |->
            LET mine == SelectSeq(columnRows, LAMBDA c :
                           /\ c.table_schema = rows[i].table_schema
                           /\ c.table_name = rows[i].table_name
                           /\ \A j \in (i + 1)..Len(rows) :
                                 ~(rows[j].table_schema = rows[i].table_schema
                                   /\ rows[j].table_name = rows[i].table_name))
            IN  [j \in 1..Len(mine) |->
                    [name |-> mine[j].column_name,
                     type |-> normalizeType(mine[j].data_type, mine[j].udt_name)]]]]

\* extractSchema between BEGIN and COMMIT, on the rows the queries returned
extractSchema(req, rows) ==
    LET excludeTables == req.excludeTables
        tableRows  == FilterTableRows(rows.tables, excludeTables)
        withCols   == AttachColumns(rows.columns, 1, BuildTablesMap(tableRows))
        withCons   == AttachConstraints(rows.constraints, 1,
                          [tablesMap |-> withCols, relationships |-> <<>>])
        tables     == MapValues(withCons.tablesMap)
        mapped     == mapInterfaces(<<>>, tables)
    IN  SchemaExport(Meta(req.includeSchemas, excludeTables),
                     EnumsOf(rows.enums),
                     tables,
                     ViewsOf(rows.views, rows.viewColumns),
                     withCons.relationships,
                     IndexesOf(rows.indexes),
                     mapped.interfacesMapped,
                     mapped.warnings)

-----------------------------------------------------------------------------
(* The catalog extractSchema reads. Every row set is in the order of its     *)
(* query's ORDER BY: the pools below are written in that order and a row set *)
(* is a subsequence of its pool (table rows may repeat).                     *)

\* most rows of tablesRes
MaxTableRows == 2

\* most rows of constraintsRes
MaxConstraintRows == 3

TableRow(schema, name) == [table_schema |-> schema, table_name |-> name]

\* ORDER BY table_schema, table_name
TableRowPool == << TableRow("app", "users"), TableRow("public", "orders"),
                   TableRow("public", "users") >>

ColumnRow(schema, table, name, dataType, udt, isNullable) ==
    [table_schema |-> schema, table_name |-> table, column_name |-> name,
     data_type |-> dataType, udt_name |-> udt, is_nullable |-> isNullable,
     column_default |-> <<>>, is_generated |-> "NEVER", description |-> <<>>]

\* ORDER BY table_schema, table_name, ordinal_position
ColumnRows ==
    << ColumnRow("app", "users", "id", "integer", "int4", "NO"),
       ColumnRow("public", "orders", "id", "integer", "int4", "NO"),
       ColumnRow("public", "orders", "user_id", "integer", "int4", "YES"),
       ColumnRow("public", "users", "id", "integer", "int4", "NO"),
       ColumnRow("public", "users", "email", "USER-DEFINED", "citext", "YES"),
       ColumnRow("public", "v_users", "id", "integer", "int4", "YES") >>

ConstraintRow(schema, table, conname, contype, columns, refTable, refColumns) ==
    [schema |-> schema, table |-> table, conname |-> conname, contype |-> contype,
     columns |-> columns, ref_table |-> refTable, ref_schema |-> "public",
     ref_columns |-> refColumns,
     confupdtype |-> IF contype = "f" THEN "a" ELSE " ",
     confdeltype |-> IF contype = "f" THEN "c" ELSE " ",
     condef |-> IF contype = "c" THEN <<"CHECK ((id > 0))">> ELSE <<>>]

\* ORDER BY n.nspname, c.relname, con.conname. A constraint without referenced
\* columns aggregates to an array holding one NULL, and so does one whose own
\* columns join no attribute; normalizeColumns makes both the empty list.
ConstraintRowPool ==
    << ConstraintRow("public", "orders", "orders_ghost_fkey", "f",
                     << <<>> >>, "users", << <<>> >>),
       ConstraintRow("public", "orders", "orders_user_id_fkey", "f",
                     << <<"user_id">> >>, "users", << <<"id">> >>),
       ConstraintRow("public", "users", "users_email_key", "u",
                     << <<"email">> >>, "", << <<>> >>),
       ConstraintRow("public", "users", "users_email_id_key", "u",
                     << <<"email">>, <<"id">> >>, "", << <<>> >>),
       ConstraintRow("public", "users", "users_id_check", "c",
                     << <<"id">> >>, "", << <<>> >>),
       ConstraintRow("public", "users", "users_id_fkey", "f",
                     << <<"id">> >>, "orders", << <<"id">> >>),
       ConstraintRow("public", "users", "users_pkey", "p",
                     << <<"id">> >>, "", << <<>> >>),
       ConstraintRow("public", "users", "users_shadow_fkey", "f",
                     << <<"id">> >>, "orders", << <<"id">> >>) >>

IndexRow(schema, table, name, columns, primary) ==
    [schema |-> schema, table |-> table, name |-> name, columns |-> columns,
     indisunique |-> TRUE, indisprimary |-> primary, method |-> <<"btree">>,
     definition |-> <<>>]

\* ORDER BY n.nspname, c.relname, i.relname
IndexRowPool ==
    << IndexRow("public", "orders", "orders_user_id_idx", <<"user_id">>, FALSE),
       IndexRow("public", "users", "users_pkey", <<"id">>, TRUE) >>

EnumRows ==
    << [schema |-> "public", name |-> "status", values |-> <<"on", "off">>,
        comment |-> <<>>] >>

ViewRows ==
    << [table_schema |-> "public", table_name |-> "v_users",
        view_definition |-> <<"SELECT id FROM users">>] >>

\* the subsequences of pool with at most n elements
SubSeqsUpTo(pool, n) ==
    { SelectSeq(pool, LAMBDA x : \E i \in picks : pool[i] = x) :
        picks \in { q \in SUBSET (1..Len(pool)) : Cardinality(q) <= n } }

\* the sorted row lists of at most n rows of pool, a row possibly repeated
SortedUpTo(pool, n) ==
    { rows \in SeqsUpTo(Range(pool), n) :
        \A i \in 1..(Len(rows) - 1) :
           \E a, b \in 1..Len(pool) : a <= b /\ pool[a] = rows[i] /\ pool[b] = rows[i + 1] }

Requests ==
    { [includeSchemas |-> <<"app", "public">>, excludeTables |-> ex] :
        ex \in { <<>>, <<"users">>, <<"orders">> } }

Catalogs ==
    { [tables |-> t, columns |-> ColumnRows, viewColumns |-> ColumnRows,
       constraints |-> c, indexes |-> x, enums |-> EnumRows, views |-> ViewRows] :
        t \in SortedUpTo(TableRowPool, MaxTableRows),
        c \in SubSeqsUpTo(ConstraintRowPool, MaxConstraintRows),
        x \in SubSeqsUpTo(IndexRowPool, Len(IndexRowPool)) }

ExtractInit ==
    /\ pc = "extract"
    /\ request \in Requests
    /\ catalog \in Catalogs
    /\ result = <<>>
    /\ DiffIdle
    /\ ServerIdle
    /\ MapIdle
    /\ MysqlIdle
    /\ ScanIdle
    /\ ConcIdle
    /\ TxnIdle

\* the queries succeed, the snapshot is built and returned
ExtractReturn ==
    /\ pc = "extract"
    /\ result' = extractSchema(request, catalog)
    /\ pc' = "extracted"
    /\ UNCHANGED <<request, catalog, diffVars, serverVars, mapVars, mysqlVars, scanVars, concVars, txnVars>>

\* a query rejects: extractSchema throws and returns no snapshot
ExtractThrow ==
    /\ pc = "extract"
    /\ pc' = "threw"
    /\ UNCHANGED <<request, catalog, result, diffVars, serverVars, mapVars, mysqlVars, scanVars, concVars, txnVars>>

ExtractNext == ExtractReturn \/ ExtractThrow

SpecExtract == ExtractInit /\ [][ExtractNext]_vars

-----------------------------------------------------------------------------
(* The HTTP server: the snapshot store and its handlers.                    *)

\* longest warnings list of a stored snapshot: a bound on repeated imports
MaxWarnings == 3

\* the ids crypto.randomUUID() may return
SnapshotIds == {"s1", "s2"}

ServerRequests == { [includeSchemas |-> <<"app", "public">>, excludeTables |-> <<>>] }

ServerCatalogs ==
    { [tables |-> t, columns |-> ColumnRows, viewColumns |-> ColumnRows,
       constraints |-> ConstraintRowPool, indexes |-> IndexRowPool,
       enums |-> EnumRows, views |-> ViewRows] :
        t \in { << TableRow("public", "orders"), TableRow("public", "users") >>,
                << TableRow("app", "users"), TableRow("public", "users") >> } }

Field(name, type, nullable) == [name |-> name, type |-> type, nullable |-> nullable]

\* the bodies of POST /interfaces/import: no interface, one that agrees with
\* public.users, one that differs from it together with one without a table
InterfaceLists ==
    { <<>>,
      << InterfaceDef("Users", "src/user.ts:1",
            << Field("id", "integer", FALSE), Field("email", "CITEXT", TRUE) >>) >>,
      << InterfaceDef("users", "src/dto.ts:3", << Field("id", "string", FALSE) >>),
         InterfaceDef("Widget", "src/dto.ts:9", << Field("id", "integer", FALSE) >>) >> }

Reply(op, id, status) == [op |-> op, id |-> id, status |-> status]

\* most writes of snapshots.json the server is followed for
MaxWrites == 3

\* snapshots.json: its content, and how many times writeFileSync has written it
SnapshotFile(content, writes) == [content |-> content, writes |-> writes]

\* persistSnapshots(): snapshots.json written anew with the store
persistSnapshots(store, file) == SnapshotFile(store, file.writes + 1)

\* the file rewritten by the DELETE handler whatever snapshots.delete returned
FileAfterDeleteAlways(ok, store, file) == persistSnapshots(store, file)

\* if (ok) persistSnapshots(): the content of snapshots.json after the DELETE
\* handler, ok being what snapshots.delete returned
FileAfterDelete(ok, store, file) ==
    IF ok THEN persistSnapshots(store, file) ELSE file

\* snapshot.warnings.filter((w) => w.type !== "interface_unmapped")
BaseWarnings(warnings) ==
    SelectSeq(warnings, LAMBDA w : w.type # "interface_unmapped")

\* the stored snapshot rebuilt with its relationships derived anew (none)
ImportedSnapshotRebuilt(snapshot, interfaces) ==
    LET mapped == mapInterfaces(interfaces, snapshot.tables)
    IN  [snapshot EXCEPT !.interfaces = mapped.interfacesMapped,
                         !.relationships = <<>>,
                         !.warnings = BaseWarnings(snapshot.warnings) \o mapped.warnings]

\* the snapshot POST /interfaces/import stores in place of snapshot
ImportedSnapshot(snapshot, interfaces) ==
    LET mapped == mapInterfaces(interfaces, snapshot.tables)
    IN  [snapshot EXCEPT !.interfaces = mapped.interfacesMapped,
                         !.warnings = BaseWarnings(snapshot.warnings) \o mapped.warnings]

ServerInit ==
    /\ pc = "serve"
    /\ snapshots = <<>>
    /\ disk = SnapshotFile(<<>>, 0)
    /\ reply = <<>>
    /\ DiffIdle
    /\ ExtractIdle
    /\ MapIdle
    /\ MysqlIdle
    /\ ScanIdle
    /\ ConcIdle
    /\ TxnIdle

\* POST /extract: extract, store under a fresh id, persist
PostExtract ==
    \E req \in ServerRequests, rows \in ServerCatalogs, id \in SnapshotIds :
        /\ ~MapHas(snapshots, id)
        /\ disk.writes < MaxWrites
        /\ snapshots' = MapSet(snapshots, id, extractSchema(req, rows))
        /\ disk' = persistSnapshots(snapshots', disk)
        /\ reply' = Reply("extract", id, 200)
        /\ UNCHANGED <<pc, diffVars, extractVars, mapVars, mysqlVars, scanVars, concVars, txnVars>>

\* POST /extract when extractSchema throws: the error handler answers
PostExtractFails ==
    /\ reply' = Reply("extract", "", 500)
    /\ UNCHANGED <<pc, snapshots, disk, diffVars, extractVars, mapVars, mysqlVars, scanVars, concVars, txnVars>>

\* GET /snapshots/:id
GetSnapshot ==
    \E id \in SnapshotIds :
        /\ reply' = Reply("get", id, IF MapHas(snapshots, id) THEN 200 ELSE 404)
        /\ UNCHANGED <<pc, snapshots, disk, diffVars, extractVars, mapVars, mysqlVars, scanVars, concVars, txnVars>>

\* DELETE /snapshots/:id
DeleteSnapshot ==
    \E id \in SnapshotIds :
        /\ disk.writes < MaxWrites
        /\ snapshots' = MapDelete(snapshots, id)
        /\ disk' = FileAfterDelete(MapHas(snapshots, id), snapshots', disk)
        /\ reply' = Reply(IF MapHas(snapshots, id) THEN "deleted" ELSE "not-deleted", id, 200)
        /\ UNCHANGED <<pc, diffVars, extractVars, mapVars, mysqlVars, scanVars, concVars, txnVars>>

\* POST /interfaces/import
PostInterfacesImport ==
    \E id \in SnapshotIds, interfaces \in InterfaceLists :
        IF ~MapHas(snapshots, id)
        THEN /\ reply' = Reply("import", id, 404)
             /\ UNCHANGED <<pc, snapshots, disk, diffVars, extractVars, mapVars, mysqlVars, scanVars, concVars, txnVars>>
        ELSE LET updated == ImportedSnapshot(MapGet(snapshots, id), interfaces)
             IN  /\ Len(updated.warnings) <= MaxWarnings
                 /\ disk.writes < MaxWrites
                 /\ snapshots' = MapSet(snapshots, id, updated)
                 /\ disk' = persistSnapshots(snapshots', disk)
                 /\ reply' = Reply("import", id, 200)
                 /\ UNCHANGED <<pc, diffVars, extractVars, mapVars, mysqlVars, scanVars, concVars, txnVars>>

\* GET /snapshots/:id/diff/:otherId
GetDiff ==
    \E id \in SnapshotIds, otherId \in SnapshotIds :
        /\ reply' = Reply("diff", id \o "/" \o otherId,
                          IF MapHas(snapshots, id) /\ MapHas(snapshots, otherId)
                          THEN 200 ELSE 404)
        /\ UNCHANGED <<pc, snapshots, disk, diffVars, extractVars, mapVars, mysqlVars, scanVars, concVars, txnVars>>

Next ==
    \/ PostExtract
    \/ PostExtractFails
    \/ GetSnapshot
    \/ DeleteSnapshot
    \/ PostInterfacesImport
    \/ GetDiff

Init == ServerInit

Spec == Init /\ [][Next]_vars

-----------------------------------------------------------------------------
(* The arguments mapInterfaces is given.                                    *)

\* longest field list of an interface
MaxFields == 2

\* longest column list of the table the interfaces are matched against
MaxMapCols == 2

\* columns whose names differ from the field names by letter case, two of them
\* from each other by letter case alone
MapColumns ==
    { PgColumn("id", "integer", FALSE, <<>>),
      PgColumn("Email", "text", TRUE, <<>>),
      PgColumn("ID", "text", TRUE, <<>>) }

\* fields that agree with a column, differ in nullability, in type text, in the
\* letter case of name or type, or have no column
MapFields ==
    { Field("id", "integer", FALSE),
      Field("ID", "INTEGER", TRUE),
      Field("email", "string", TRUE),
      Field("email", "TEXT", FALSE),
      Field("name", "text", TRUE) }

\* the column lists of a table: column names are unique within a table, as
\* written (names that differ by letter case are different columns)
MapColumnLists ==
    { cols \in SeqsUpTo(MapColumns, MaxMapCols) :
         \A a, b \in 1..Len(cols) : cols[a].name = cols[b].name => a = b }

\* the table lists: public.users alone, with app.Users before or after it, or
\* no table of that name
MapTableLists ==
    UNION { { << PgTable("public", "users", cols) >>,
              << PgTable("app", "Users", <<PgColumn("id", "integer", FALSE, <<>>)>>),
                 PgTable("public", "users", cols) >>,
              << PgTable("public", "users", cols),
                 PgTable("app", "Users", <<PgColumn("id", "integer", FALSE, <<>>)>>) >>,
              << PgTable("public", "orders", cols) >> } :
            cols \in MapColumnLists }

\* the interface lists: none, Users alone, Users after or before Widget
MapInterfaceLists ==
    { <<>> } \cup
    UNION { { << InterfaceDef("Users", "src/user.ts:1", fields) >>,
              << InterfaceDef("Widget", "src/dto.ts:9", <<Field("id", "integer", FALSE)>>),
                 InterfaceDef("Users", "src/user.ts:1", fields) >>,
              << InterfaceDef("Users", "src/user.ts:1", fields),
                 InterfaceDef("Widget", "src/dto.ts:9", <<Field("id", "integer", FALSE)>>) >> } :
            fields \in SeqsUpTo(MapFields, MaxFields) }

MapInit ==
    /\ pc = "map"
    /\ mapArgs \in [interfaces : MapInterfaceLists, tables : MapTableLists]
    /\ mapResult = <<>>
    /\ DiffIdle
    /\ ExtractIdle
    /\ ServerIdle
    /\ MysqlIdle
    /\ ScanIdle
    /\ ConcIdle
    /\ TxnIdle

\* mapInterfaces(interfaces, tables): the arguments are read, never written
MapCall ==
    /\ pc = "map"
    /\ mapResult' = mapInterfaces(mapArgs.interfaces, mapArgs.tables)
    /\ pc' = "mapped"
    /\ UNCHANGED <<mapArgs, diffVars, extractVars, serverVars, mysqlVars, scanVars, concVars, txnVars>>

MapNext == MapCall

SpecMap == MapInit /\ [][MapNext]_vars


-----------------------------------------------------------------------------
(* Properties of diffSchemas (checked under SpecDiff).                      *)

Diffed == pc = "diffed"

\* the data model's uniqueness invariants: table keys within a snapshot,
\* column names within a table
UniqueKeys(snap) ==
    /\ \A i, j \in 1..Len(snap.tables) :
          (snap.tables[i].schema = snap.tables[j].schema
           /\ snap.tables[i].name = snap.tables[j].name) => i = j
    /\ \A i \in 1..Len(snap.tables) :
          \A m, n \in 1..Len(snap.tables[i].columns) :
             snap.tables[i].columns[m].name = snap.tables[i].columns[n].name => m = n

SameTable(ta, tb) == ta.schema = tb.schema /\ ta.name = tb.name

SameEndpoints(ra, rb) ==
    /\ ra.from.schema = rb.from.schema /\ ra.from.table = rb.from.table
    /\ ra.to.schema = rb.to.schema /\ ra.to.table = rb.to.table

\* the pairs (table of a, table of b) with the same (schema, name)
CommonTables == { p \in Range(snapA.tables) \X Range(snapB.tables) : SameTable(p[1], p[2]) }

\* the pairs (column of ta, column of tb) with the same name
CommonColumns(ta, tb) ==
    { q \in Range(ta.columns) \X Range(tb.columns) : q[1].name = q[2].name }

ColumnTypes == { c.type : c \in DiffColumns } \cup
               { c.type : c \in UNION { Range(t.columns) : t \in DiffTables } }

\* every text breaking can hold about column name of table key k
BreakingTextsOf(k, name) ==
    { MsgNotNull(k, name), MsgRemoved(k, name) }
    \cup { MsgType(k, name, t1, t2) : t1, t2 \in ColumnTypes }

C6_RemovalAndTypeChangeBreaking ==
    (Diffed /\ UniqueKeys(snapA) /\ UniqueKeys(snapB)) =>
        \A p \in CommonTables :
            /\ \A ca \in Range(p[1].columns) :
                  (\A cb \in Range(p[2].columns) : cb.name # ca.name)
                  => MsgRemoved(keyTable(p[1]), ca.name) \in Range(report.breaking)
            /\ \A q \in CommonColumns(p[1], p[2]) :
                  q[1].type # q[2].type
                  => MsgType(keyTable(p[1]), q[1].name, q[1].type, q[2].type)
                        \in Range(report.breaking)

C6_Witness ==
    /\ Diffed /\ UniqueKeys(snapA) /\ UniqueKeys(snapB)
    /\ \E p \in CommonTables :
          /\ \E ca \in Range(p[1].columns) :
                \A cb \in Range(p[2].columns) : cb.name # ca.name
          /\ \E q \in CommonColumns(p[1], p[2]) :
                /\ q[1].type # q[2].type
                /\ q[1].nullable /\ ~q[2].nullable
    /\ Len(report.breaking) >= 3

\* C7: a column of both versions of a table, type unchanged, nullable in a and
\* not nullable in b, is in the changed list of the table's columnChanges entry
\* and has exactly one entry in breaking, the NOT NULL one.
C7_TightenedNullability ==
    (Diffed /\ UniqueKeys(snapA) /\ UniqueKeys(snapB)) =>
        \A p \in CommonTables : \A q \in CommonColumns(p[1], p[2]) :
            (q[1].type = q[2].type /\ q[1].nullable /\ ~q[2].nullable) =>
                LET k == keyTable(p[1])
                    name == q[1].name
                    about == { i \in 1..Len(report.breaking) :
                                  report.breaking[i] \in BreakingTextsOf(k, name) }
                IN  /\ \E e \in Range(report.tables.columnChanges) :
                          e.table = k /\ name \in Range(e.changed)
                    /\ Cardinality(about) = 1
                    /\ \A i \in about : report.breaking[i] = MsgNotNull(k, name)

C7_Witness ==
    /\ Diffed /\ UniqueKeys(snapA) /\ UniqueKeys(snapB)
    /\ \E p \in CommonTables : \E q \in CommonColumns(p[1], p[2]) :
          /\ q[1].type = q[2].type /\ q[1].nullable /\ ~q[2].nullable
          /\ MsgNotNull(keyTable(p[1]), q[1].name) \in Range(report.breaking)

\* b is a compatible evolution of a: in every table of both, no column was
\* removed, no type text changed and no nullability was tightened
CompatibleEvolution ==
    \A p \in CommonTables : \A ca \in Range(p[1].columns) :
        \E cb \in Range(p[2].columns) :
            /\ cb.name = ca.name
            /\ cb.type = ca.type
            /\ (ca.nullable => cb.nullable)

\* C8: added tables, added columns, columns relaxed to nullable and changed
\* defaults alone leave breaking empty.
C8_CompatibleIsNotBreaking ==
    (Diffed /\ UniqueKeys(snapA) /\ UniqueKeys(snapB) /\ CompatibleEvolution)
        => report.breaking = <<>>

C8_Witness ==
    /\ Diffed /\ UniqueKeys(snapA) /\ UniqueKeys(snapB) /\ CompatibleEvolution
    /\ \E p \in CommonTables :
          /\ \E q \in CommonColumns(p[1], p[2]) :
                ~q[1].nullable /\ q[2].nullable /\ q[1].default # q[2].default
          /\ Len(p[2].columns) > Len(p[1].columns)
    /\ report.tables.columnChanges # <<>>
    /\ report.breaking = <<>>

\* C9: diff symmetry on tables: added of (a, b) is removed of (b, a) and
\* removed of (a, b) is added of (b, a), as lists.
C9_DiffSymmetry ==
    Diffed =>
        /\ report.tables.added = diffSchemas(snapB, snapA).tables.removed
        /\ report.tables.removed = diffSchemas(snapB, snapA).tables.added

C9_Witness ==
    /\ Diffed
    /\ Len(report.tables.added) = 1
    /\ Len(report.tables.removed) = 1
    /\ ~UniqueKeys(snapA)

ReportEmpty(r) ==
    /\ r.tables.added = <<>> /\ r.tables.removed = <<>>
    /\ r.tables.changed = <<>> /\ r.tables.columnChanges = <<>>
    /\ r.enums.added = <<>> /\ r.enums.removed = <<>>
    /\ r.indexes.added = <<>> /\ r.indexes.removed = <<>>
    /\ r.relationships.added = <<>> /\ r.relationships.removed = <<>>
    /\ r.interfaces.added = <<>> /\ r.interfaces.removed = <<>>
    /\ r.breaking = <<>>

\* C10: diff identity law: the diff of a snapshot with itself is empty in every
\* list, also for snapshots that repeat keys or column names.
C10_DiffIdentity == (Diffed /\ snapA = snapB) => ReportEmpty(report)

C10_Witness ==
    /\ Diffed /\ snapA = snapB
    /\ ~UniqueKeys(snapA)
    /\ Len(snapA.enums) = 2 /\ Len(snapA.relationships) = 2
    /\ ReportEmpty(report)

\* the names the columnChanges entries of table key k hold in one of their lists
ChangedOf(k) ==
    UNION { Range(e.changed) : e \in { x \in Range(report.tables.columnChanges) : x.table = k } }

AddedOf(k) ==
    UNION { Range(e.added) : e \in { x \in Range(report.tables.columnChanges) : x.table = k } }

RemovedOf(k) ==
    UNION { Range(e.removed) : e \in { x \in Range(report.tables.columnChanges) : x.table = k } }

ColumnNames(t) == { c.name : c \in Range(t.columns) }

\* C11: for a table of both snapshots, a column name of both versions is in
\* the table's changed list iff its type text differs (case-sensitive), or its
\* nullability differs, or its default differs with null taken as ""; the
\* added list holds the names only b has and the removed list those only a has.
C11_ColumnChangeRule ==
    (Diffed /\ UniqueKeys(snapA) /\ UniqueKeys(snapB)) =>
        \A p \in CommonTables :
            LET k == p[1].schema \o "." \o p[1].name
            IN  /\ \A q \in CommonColumns(p[1], p[2]) :
                      q[1].name \in ChangedOf(k) <=>
                          \/ q[1].type # q[2].type
                          \/ q[1].nullable # q[2].nullable
                          \/ (IF q[1].default = <<>> THEN "" ELSE q[1].default[1])
                             # (IF q[2].default = <<>> THEN "" ELSE q[2].default[1])
                /\ AddedOf(k) = ColumnNames(p[2]) \ ColumnNames(p[1])
                /\ RemovedOf(k) = ColumnNames(p[1]) \ ColumnNames(p[2])

\* a column whose type differs by letter case alone is changed, beside an
\* added column
C11_Witness ==
    /\ Diffed /\ UniqueKeys(snapA) /\ UniqueKeys(snapB)
    /\ \E p \in CommonTables :
          /\ \E q \in CommonColumns(p[1], p[2]) :
                /\ q[1].type # q[2].type
                /\ toLowerCase(q[1].type) = toLowerCase(q[2].type)
                /\ q[1].name \in ChangedOf(keyTable(p[1]))
          /\ AddedOf(keyTable(p[1])) # {}

\* the keys a list of entities has under key function of its kind
TableKeys(snap) == { t.schema \o "." \o t.name : t \in Range(snap.tables) }

EnumKeys(snap) == { e.schema \o "." \o e.name : e \in Range(snap.enums) }

IndexKeys(snap) == { i.schema \o "." \o i.table \o "." \o i.name : i \in Range(snap.indexes) }

RelationshipKeys(snap) == { keyRel(r) : r \in Range(snap.relationships) }

InterfaceKeys(snap) == { toLowerCase(i.name) : i \in Range(snap.interfaces) }

\* C12: for tables, enums, indexes, relationships and interfaces, added is the
\* set of keys b has and a lacks and removed the set of keys a has and b lacks;
\* the interface key is the lower-cased name.
C12_AddedRemovedAreKeyDifferences ==
    Diffed =>
        /\ Range(report.tables.added) = TableKeys(snapB) \ TableKeys(snapA)
        /\ Range(report.tables.removed) = TableKeys(snapA) \ TableKeys(snapB)
        /\ Range(report.enums.added) = EnumKeys(snapB) \ EnumKeys(snapA)
        /\ Range(report.enums.removed) = EnumKeys(snapA) \ EnumKeys(snapB)
        /\ Range(report.indexes.added) = IndexKeys(snapB) \ IndexKeys(snapA)
        /\ Range(report.indexes.removed) = IndexKeys(snapA) \ IndexKeys(snapB)
        /\ Range(report.relationships.added) = RelationshipKeys(snapB) \ RelationshipKeys(snapA)
        /\ Range(report.relationships.removed) = RelationshipKeys(snapA) \ RelationshipKeys(snapB)
        /\ Range(report.interfaces.added) = InterfaceKeys(snapB) \ InterfaceKeys(snapA)
        /\ Range(report.interfaces.removed) = InterfaceKeys(snapA) \ InterfaceKeys(snapB)
        /\ \A l \in { report.tables.added, report.tables.removed,
                      report.enums.added, report.enums.removed,
                      report.indexes.added, report.indexes.removed,
                      report.relationships.added, report.relationships.removed,
                      report.interfaces.added, report.interfaces.removed } :
              \A i, j \in 1..Len(l) : l[i] = l[j] => i = j

\* interfaces Users (a) and USERS (b) are one entity, Widget is added
C12_Witness ==
    /\ Diffed
    /\ \E ia \in Range(snapA.interfaces), ib \in Range(snapB.interfaces) :
          ia.name # ib.name /\ toLowerCase(ia.name) = toLowerCase(ib.name)
    /\ report.interfaces.added = <<"widget">>
    /\ report.interfaces.removed = <<>>
    /\ report.enums.added = <<>> /\ report.indexes.added # <<>>
    /\ report.relationships.added # <<>> /\ report.relationships.removed = <<>>


-----------------------------------------------------------------------------
(* Properties of extractSchema (checked under SpecExtract).                 *)

Extracted == pc = "extracted"

\* the relationships of the snapshot derived from foreign key fk of table t
RelationshipsFrom(snap, t, fk) ==
    { r \in Range(snap.relationships) :
        r.fkName = fk.name /\ r.from.schema = t.schema /\ r.from.table = t.name }

\* fk's ordered columns are the primary key's or some unique constraint's, as
\* the table stands in the snapshot
CoversKey(t, fk) ==
    \/ t.primaryKey # <<>> /\ t.primaryKey[1].columns = fk.columns
    \/ \E u \in Range(t.uniques) : u.columns = fk.columns

\* C2: in the snapshot produced, a relationship derived from a foreign key
\* whose ordered columns equal the table's primary-key columns or those of one
\* of its unique constraints is one_to_one, whatever the order of the
\* constraint rows.
C2_KeyCoveringFkIsOneToOne ==
    Extracted =>
        \A t \in Range(result.tables) : \A fk \in Range(t.foreignKeys) :
            CoversKey(t, fk) =>
                \A r \in RelationshipsFrom(result, t, fk) : r.type = "one_to_one"

\* C3: no snapshot is returned when the table row set holds two rows with the
\* same (schema, name): normalization throws.
C3_DuplicateTableRowsThrow ==
    (\E i, j \in 1..Len(catalog.tables) :
        i # j /\ catalog.tables[i] = catalog.tables[j])
    => ~Extracted

\* C4: with a non-empty excludeTables, the snapshot produced holds no table of
\* an excluded name and no relationship source or index entry owned by one
\* (columns, constraints and foreign keys are held by their table).
C4_ExcludedTablesLeaveNoTrace ==
    (Extracted /\ request.excludeTables # <<>>) =>
        LET excluded == Range(request.excludeTables)
        IN  /\ \A t \in Range(result.tables) : t.name \notin excluded
            /\ \A r \in Range(result.relationships) : r.from.table \notin excluded
            /\ \A x \in Range(result.indexes) : x.table \notin excluded

-----------------------------------------------------------------------------
(* Properties of the server (checked under Spec).                           *)

\* the step is a successful POST /interfaces/import on id that carries the
\* interface list of the import before it: the mapped interfaces stay the same
RepeatedImport(id) ==
    /\ MapHas(snapshots, id)
    /\ reply' = Reply("import", id, 200)
    /\ MapGet(snapshots, id).interfaces # <<>>
    /\ MapGet(snapshots', id).interfaces = MapGet(snapshots, id).interfaces

\* C1: repeated mapping passes do not accumulate warnings: an import that
\* carries the same interface list as the import before it leaves the stored
\* snapshot's warnings as they were after that import.
C1_RepeatedImportKeepsWarnings ==
    [][\A id \in SnapshotIds :
          RepeatedImport(id) =>
              MapGet(snapshots', id).warnings = MapGet(snapshots, id).warnings]_vars

-----------------------------------------------------------------------------
(* Properties of mapInterfaces (checked under SpecMap).                     *)

Mapped == pc = "mapped"

\* the positions of the tables whose name is the interface's, ignoring case
TablesNamed(iface) ==
    { j \in 1..Len(mapArgs.tables) :
         toLowerCase(mapArgs.tables[j].name) = toLowerCase(iface.name) }

First(S) == CHOOSE j \in S : \A m \in S : j <= m

\* the positions of the interfaces that have a table of their name
MatchedInterfaces == { i \in 1..Len(mapArgs.interfaces) : TablesNamed(mapArgs.interfaces[i]) # {} }

\* C13: each interface that has a table of its name, ignoring letter case, is
\* mapped to the first such table in the order of the table list, whatever the
\* schemas; mappedTo carries that table's schema and name and confidence 0.9.
C13_FirstTableOfTheNameWins ==
    Mapped =>
        /\ Len(mapResult.interfacesMapped) = Len(mapArgs.interfaces)
        /\ \A i \in MatchedInterfaces :
              LET t  == mapArgs.tables[First(TablesNamed(mapArgs.interfaces[i]))]
                  to == mapResult.interfacesMapped[i].mappedTo
              IN  /\ to # <<>>
                  /\ to[1].table = t.name
                  /\ to[1].schema = t.schema
                  /\ to[1].confidence = "0.9"

\* two tables of the name in different schemas: the interface Users goes to
\* public.users, listed first, not to app.Users, whose name has its letter case
C13_Witness ==
    /\ Mapped
    /\ \E i \in MatchedInterfaces :
          /\ Cardinality(TablesNamed(mapArgs.interfaces[i])) = 2
          /\ mapArgs.tables[1].schema = "public" /\ mapArgs.tables[2].schema = "app"
          /\ mapArgs.tables[1].name # mapArgs.interfaces[i].name
          /\ mapArgs.tables[2].name = mapArgs.interfaces[i].name
          /\ mapResult.interfacesMapped[i].mappedTo[1].schema = "public"

\* the table interface i is matched to, and the fieldDiff returned for it
MatchOf(i) == mapArgs.tables[First(TablesNamed(mapArgs.interfaces[i]))]

FieldDiffOf(i) == mapResult.interfacesMapped[i].mappedTo[1].fieldDiff

\* the columns of table t whose name is the field's, ignoring case
ColumnsNamed(t, f) ==
    { n \in 1..Len(t.columns) : toLowerCase(t.columns[n].name) = toLowerCase(f.name) }

\* C14: for a matched interface, the name of a field is in missingInTable iff
\* the matched table has no column of that name ignoring letter case; for
\* every field, also when two fields have the same name or names that differ
\* by letter case alone.
C14_MissingIffNoColumn ==
    Mapped =>
        \A i \in MatchedInterfaces :
            \A f \in Range(mapArgs.interfaces[i].fields) :
                f.name \in Range(FieldDiffOf(i).missingInTable)
                    <=> ColumnsNamed(MatchOf(i), f) = {}

\* the names of the columns of t, as stored, that no field of iface names
\* ignoring letter case
Unconsumed(iface, t) ==
    SelectSeq([n \in 1..Len(t.columns) |-> t.columns[n].name],
              LAMBDA name : \A f \in Range(iface.fields) :
                                toLowerCase(f.name) # toLowerCase(name))

\* C15: for a matched interface, extraInTable is the list of the column names
\* of the matched table, as stored on its columns, that no field consumed
\* under case-insensitive name matching.
C15_ExtraAreStoredColumnNames ==
    Mapped =>
        \A i \in MatchedInterfaces :
            FieldDiffOf(i).extraInTable = Unconsumed(mapArgs.interfaces[i], MatchOf(i))

\* field n of interface i finds its column: the table has a column of its name
\* ignoring case, and no field before it has that name ignoring case
Finds(i, n) ==
    LET fields == mapArgs.interfaces[i].fields
    IN  /\ ColumnsNamed(MatchOf(i), fields[n]) # {}
        /\ \A m \in 1..(n - 1) : toLowerCase(fields[m].name) # toLowerCase(fields[n].name)

\* the column tableCols.get yields for field f: of the columns of its name
\* ignoring case, the last one set into the map
ColumnFound(t, f) ==
    t.columns[CHOOSE n \in ColumnsNamed(t, f) : \A m \in ColumnsNamed(t, f) : m <= n]

\* C16: for a matched interface and a field whose column is found, the field
\* name is in nullableMismatches iff the nullable flags differ, and in
\* typeMismatches iff the type texts differ ignoring letter case; a field may
\* be in both lists.
C16_MismatchRules ==
    Mapped =>
        \A i \in MatchedInterfaces :
            \A n \in 1..Len(mapArgs.interfaces[i].fields) :
                Finds(i, n) =>
                    LET f   == mapArgs.interfaces[i].fields[n]
                        col == ColumnFound(MatchOf(i), f)
                    IN  /\ f.name \in Range(FieldDiffOf(i).nullableMismatches)
                              <=> col.nullable # f.nullable
                        /\ f.name \in Range(FieldDiffOf(i).typeMismatches)
                              <=> toLowerCase(col.type) # toLowerCase(f.type)

\* field email of type TEXT, not nullable, against the nullable column Email of
\* type text is a nullable mismatch alone; field id of type integer, not
\* nullable, against the nullable column ID of type text is in both lists
C16_Witness ==
    /\ Mapped
    /\ \E i \in MatchedInterfaces :
          /\ \A n \in 1..Len(mapArgs.interfaces[i].fields) : Finds(i, n)
          /\ \E f \in Range(mapArgs.interfaces[i].fields) :
                f.type = "TEXT" /\ ColumnFound(MatchOf(i), f).type = "text"
          /\ FieldDiffOf(i).nullableMismatches = <<"email", "id">>
          /\ FieldDiffOf(i).typeMismatches = <<"id">>

\* the number of warnings of a kind that carry a source locator
WarningsOf(kind, source) ==
    Cardinality({ n \in 1..Len(mapResult.warnings) :
                     /\ mapResult.warnings[n].type = kind
                     /\ mapResult.warnings[n].source = source })

\* one of the four lists of the fieldDiff of interface i is not empty
Differs(i) ==
    \/ FieldDiffOf(i).missingInTable # <<>>
    \/ FieldDiffOf(i).extraInTable # <<>>
    \/ FieldDiffOf(i).nullableMismatches # <<>>
    \/ FieldDiffOf(i).typeMismatches # <<>>

\* C17: a matched interface with a non-empty list among missingInTable,
\* extraInTable, nullableMismatches, typeMismatches gets exactly one warning
\* of kind interface_field_mismatch with its source locator; one whose four
\* lists are empty gets none. (Counted per source locator.)
C17_OneMismatchWarning ==
    Mapped =>
        \A i \in MatchedInterfaces :
            WarningsOf("interface_field_mismatch", mapArgs.interfaces[i].source)
                = Cardinality({ j \in MatchedInterfaces :
                                  /\ mapArgs.interfaces[j].source = mapArgs.interfaces[i].source
                                  /\ Differs(j) })

\* an interface whose only difference is a column no field names
C17_Witness ==
    /\ Mapped
    /\ \E i \in MatchedInterfaces :
          /\ FieldDiffOf(i).missingInTable = <<>>
          /\ FieldDiffOf(i).nullableMismatches = <<>>
          /\ FieldDiffOf(i).typeMismatches = <<>>
          /\ FieldDiffOf(i).extraInTable # <<>>
          /\ mapArgs.interfaces[i].fields # <<>>
          /\ WarningsOf("interface_field_mismatch", mapArgs.interfaces[i].source) = 1
    /\ Len(mapResult.warnings) = 2

\* the positions of the interfaces that have no table of their name
UnmatchedInterfaces == (1..Len(mapArgs.interfaces)) \ MatchedInterfaces

\* C18: an interface whose name matches no table name is returned with
\* mappedTo null and gets exactly one warning of kind interface_unmapped with
\* its source locator (counted per source locator); every interface of the
\* list is returned, the matched ones mapped.
C18_UnmappedIsAWarning ==
    Mapped =>
        /\ Len(mapResult.interfacesMapped) = Len(mapArgs.interfaces)
        /\ \A i \in UnmatchedInterfaces :
              /\ mapResult.interfacesMapped[i].mappedTo = <<>>
              /\ mapResult.interfacesMapped[i].name = mapArgs.interfaces[i].name
              /\ WarningsOf("interface_unmapped", mapArgs.interfaces[i].source)
                    = Cardinality({ j \in UnmatchedInterfaces :
                          mapArgs.interfaces[j].source = mapArgs.interfaces[i].source })
        /\ \A i \in MatchedInterfaces : mapResult.interfacesMapped[i].mappedTo # <<>>

\* Widget has no table and Users, after it in the list, is mapped
C18_Witness ==
    /\ Mapped
    /\ 1 \in UnmatchedInterfaces /\ 2 \in MatchedInterfaces
    /\ mapResult.interfacesMapped[1].mappedTo = <<>>
    /\ mapResult.interfacesMapped[2].mappedTo # <<>>
    /\ WarningsOf("interface_unmapped", mapArgs.interfaces[1].source) = 1

\* C19: idempotence of mapping. A call of mapInterfaces leaves the interface
\* list and the table list it was given as they were; calling it again with
\* them, or with the interfaces it returned and the same tables, yields the
\* same mapped interfaces and the same warning list.
C19_MappingIsIdempotent ==
    [][(pc = "map" /\ pc' = "mapped") =>
          /\ mapArgs' = mapArgs
          /\ mapInterfaces(mapArgs'.interfaces, mapArgs'.tables) = mapResult'
          /\ mapInterfaces(mapResult'.interfacesMapped, mapArgs'.tables) = mapResult']_vars

\* a returned list with a mapped interface that carries a fieldDiff, an
\* unmapped one, and a warning for each
C19_Witness ==
    /\ Mapped
    /\ Len(mapResult.warnings) = 2
    /\ \E i \in MatchedInterfaces : FieldDiffOf(i).missingInTable # <<>>
    /\ UnmatchedInterfaces # {}
    /\ mapInterfaces(mapResult.interfacesMapped, mapArgs.tables).warnings = mapResult.warnings

-----------------------------------------------------------------------------
(* Frame of the interface import (checked under Spec).                      *)

\* the step is a POST /interfaces/import on the stored snapshot id
ImportOn(id) == MapHas(snapshots, id) /\ reply' = Reply("import", id, 200)

\* C20: an interface import on a stored snapshot stores in its place a
\* snapshot that differs from it in interfaces and warnings at most: meta,
\* enums, tables, views, relationships and indexes are as they were, and so is
\* every other snapshot of the store.
C20_ImportChangesInterfacesAndWarningsOnly ==
    [][\A id \in SnapshotIds :
          ImportOn(id) =>
              /\ MapKeys(snapshots') = MapKeys(snapshots)
              /\ LET old == MapGet(snapshots, id)
                     new == MapGet(snapshots', id)
                 IN  /\ DOMAIN new = DOMAIN old
                     /\ new.meta = old.meta
                     /\ new.enums = old.enums
                     /\ new.tables = old.tables
                     /\ new.views = old.views
                     /\ new.relationships = old.relationships
                     /\ new.indexes = old.indexes
              /\ \A other \in SnapshotIds \ {id} :
                    MapHas(snapshots, other) =>
                        MapGet(snapshots', other) = MapGet(snapshots, other)]_vars

\* after an import on one of two stored snapshots: it has mapped interfaces
\* and warnings, and tables, relationships and indexes
C20_Witness ==
    /\ Len(snapshots) = 2
    /\ \E id \in SnapshotIds :
          /\ reply = Reply("import", id, 200)
          /\ MapHas(snapshots, id)
          /\ MapGet(snapshots, id).interfaces # <<>>
          /\ MapGet(snapshots, id).warnings # <<>>
          /\ MapGet(snapshots, id).tables # <<>>
          /\ MapGet(snapshots, id).relationships # <<>>
          /\ MapGet(snapshots, id).indexes # <<>>

-----------------------------------------------------------------------------
(* Further properties of extractSchema (checked under SpecExtract).         *)

\* C21: in the snapshot produced, a column has isPrimaryKey iff its table has
\* a primary key whose column list holds the column's name, and isUnique iff
\* a unique constraint of its table holds the column's name (row sets with at
\* most one primary-key row per table).
C21_ColumnFlagsFollowConstraints ==
    Extracted =>
        \A t \in Range(result.tables) :
            \A c \in Range(t.columns) :
                /\ c.isPrimaryKey <=>
                      (t.primaryKey # <<>> /\ c.name \in Range(t.primaryKey[1].columns))
                /\ c.isUnique <=>
                      \E u \in Range(t.uniques) : c.name \in Range(u.columns)

\* public.users with its unique constraint listed before its primary key, a
\* foreign key between them: id is flagged primary, email unique
C21_Witness ==
    /\ Extracted
    /\ Len(catalog.constraints) = 3
    /\ catalog.constraints[1].contype = "u" /\ catalog.constraints[3].contype = "p"
    /\ \E t \in Range(result.tables) :
          /\ \E c \in Range(t.columns) : c.isPrimaryKey /\ ~c.isUnique
          /\ \E c \in Range(t.columns) : c.isUnique /\ ~c.isPrimaryKey

\* C22: in the snapshot produced, a relationship derived from a foreign key
\* whose ordered columns equal neither the primary-key columns of its table
\* nor the columns of one of its unique constraints is many_to_one, also for a
\* table without primary key and a foreign key without columns; no
\* relationship has a type other than one_to_one and many_to_one.
C22_OtherFkIsManyToOne ==
    Extracted =>
        /\ \A r \in Range(result.relationships) :
              r.type \in {"one_to_one", "many_to_one"}
        /\ \A t \in Range(result.tables) : \A fk \in Range(t.foreignKeys) :
              ~CoversKey(t, fk) =>
                  \A r \in RelationshipsFrom(result, t, fk) : r.type = "many_to_one"

\* the keys of the tables of the snapshot produced
ResultTableKeys == { t.schema \o "." \o t.name : t \in Range(result.tables) }

\* the table rows name the table (schema, name): it is a base table of a
\* captured schema
InCatalog(schema, name) ==
    \E row \in Range(catalog.tables) : row.table_schema = schema /\ row.table_name = name

\* C23: in the snapshot produced, the from endpoint of every relationship is
\* the key of a table of the snapshot, and so is its to endpoint unless the
\* referenced table lies in a schema outside includeSchemas (here: whenever
\* the referenced table is among the base tables the catalog lists for the
\* captured schemas).
C23_RelationshipEndpointsExist ==
    Extracted =>
        \A r \in Range(result.relationships) :
            /\ (r.from.schema \o "." \o r.from.table) \in ResultTableKeys
            /\ (r.to.schema \in Range(request.includeSchemas)
                /\ InCatalog(r.to.schema, r.to.table))
                  => (r.to.schema \o "." \o r.to.table) \in ResultTableKeys

-----------------------------------------------------------------------------
(* scan.ts: extractMysql, from the INFORMATION_SCHEMA rows to the snapshot. *)

\* most columns of the MySQL database
MaxMysqlColumns == 4

\* String.prototype.split(",") on the GROUP_CONCAT texts the model uses
Split(s) ==
    CASE s = "id,email" -> <<"id", "email">>
      [] OTHER          -> <<s>>

\* the text between enum( and ), split at the commas outside quotes, each
\* part trimmed and stripped of its quotes
EnumValues(columnType) ==
    CASE columnType = "enum('new','paid')" -> <<"new", "paid">>
      [] columnType = "enum('on','off')"   -> <<"on", "off">>
      [] OTHER                             -> <<columnType>>

MysqlColumnRow(table, name, columnType, dataType, isNullable, columnKey, extra) ==
    [TABLE_SCHEMA |-> "shop", TABLE_NAME |-> table, COLUMN_NAME |-> name,
     COLUMN_TYPE |-> columnType, DATA_TYPE |-> dataType, IS_NULLABLE |-> isNullable,
     COLUMN_DEFAULT |-> <<>>, COLUMN_KEY |-> columnKey, EXTRA |-> extra]

\* the columns a database shop may have: ORDER BY TABLE_NAME, ORDINAL_POSITION
MysqlColumnPool ==
    << MysqlColumnRow("orders", "id", "int", "int", "NO", "PRI", "auto_increment"),
       MysqlColumnRow("orders", "user_id", "int", "int", "YES", "MUL", ""),
       MysqlColumnRow("orders", "status", "enum('new','paid')", "enum", "NO", "", ""),
       MysqlColumnRow("users", "id", "int", "int", "NO", "PRI", "auto_increment"),
       MysqlColumnRow("users", "email", "varchar(255)", "varchar", "NO", "UNI", ""),
       MysqlColumnRow("users", "status", "enum('on','off')", "enum", "YES", "", "") >>

MysqlConstraintRow(table, name, type, cols) ==
    [TABLE_SCHEMA |-> "shop", TABLE_NAME |-> table, CONSTRAINT_NAME |-> name,
     CONSTRAINT_TYPE |-> type, cols |-> cols]

\* the keys of the tables: a constraint exists when its columns do
MysqlConstraintPool ==
    << MysqlConstraintRow("orders", "PRIMARY", "PRIMARY KEY", "id"),
       MysqlConstraintRow("users", "PRIMARY", "PRIMARY KEY", "id"),
       MysqlConstraintRow("users", "users_email_uq", "UNIQUE", "email"),
       MysqlConstraintRow("users", "users_id_email_uq", "UNIQUE", "id,email") >>

\* one row of KEY_COLUMN_USAGE per column of a foreign key
MysqlFkPool ==
    << [TABLE_SCHEMA |-> "shop", TABLE_NAME |-> "orders",
        CONSTRAINT_NAME |-> "orders_user_fk", COLUMN_NAME |-> "user_id",
        REFERENCED_TABLE_SCHEMA |-> "shop", REFERENCED_TABLE_NAME |-> "users",
        REFERENCED_COLUMN_NAME |-> "id"] >>

\* one row of STATISTICS per index: an index exists for each key
MysqlIndexRow(table, name, nonUnique, cols) ==
    [TABLE_SCHEMA |-> "shop", TABLE_NAME |-> table, INDEX_NAME |-> name,
     NON_UNIQUE |-> nonUnique, cols |-> cols]

MysqlIndexPool ==
    << MysqlIndexRow("orders", "PRIMARY", 0, "id"),
       MysqlIndexRow("orders", "orders_user_fk", 1, "user_id"),
       MysqlIndexRow("users", "PRIMARY", 0, "id"),
       MysqlIndexRow("users", "users_email_uq", 0, "email"),
       MysqlIndexRow("users", "users_id_email_uq", 0, "id,email") >>

\* the columns named by a GROUP_CONCAT text, or by one column name, are all
\* columns of table among cols
HasColumns(cols, table, names) ==
    \A n \in Range(names) :
        \E c \in Range(cols) : c.TABLE_NAME = table /\ c.COLUMN_NAME = n

\* the rows the six queries return on the database whose columns are cols
MysqlRowsOf(cols) ==
    [tablesRows |->
        LET names == SelectSeq(<<"orders", "users">>,
                        LAMBDA t : \E c \in Range(cols) : c.TABLE_NAME = t)
        IN  [i \in 1..Len(names) |->
                [TABLE_SCHEMA |-> "shop", TABLE_NAME |-> names[i],
                 TABLE_TYPE |-> "BASE TABLE", TABLE_COMMENT |-> ""]],
     cols |-> cols,
     constraints |->
        SelectSeq(MysqlConstraintPool,
                  LAMBDA r : HasColumns(cols, r.TABLE_NAME, Split(r.cols))),
     fkRows |->
        SelectSeq(MysqlFkPool,
                  LAMBDA r : /\ HasColumns(cols, r.TABLE_NAME, <<r.COLUMN_NAME>>)
                             /\ HasColumns(cols, r.REFERENCED_TABLE_NAME,
                                           <<r.REFERENCED_COLUMN_NAME>>)),
     idxRows |->
        SelectSeq(MysqlIndexPool,
                  LAMBDA r : HasColumns(cols, r.TABLE_NAME, Split(r.cols))),
     enumRows |->
        LET enumCols == SelectSeq(cols, LAMBDA c : c.DATA_TYPE = "enum")
        IN  [i \in 1..Len(enumCols) |->
                [TABLE_SCHEMA |-> enumCols[i].TABLE_SCHEMA,
                 COLUMN_NAME |-> enumCols[i].COLUMN_NAME,
                 COLUMN_TYPE |-> enumCols[i].COLUMN_TYPE]]]

MysqlDatabases ==
    { MysqlRowsOf(cols) : cols \in SubSeqsUpTo(MysqlColumnPool, MaxMysqlColumns) }

\* the loop over tablesRows that fills tablesMap
MysqlTablesMap(tablesRows) ==
    MapFrom([i \in 1..Len(tablesRows) |->
        << rowKey(tablesRows[i].TABLE_SCHEMA, tablesRows[i].TABLE_NAME),
           PgTable(tablesRows[i].TABLE_SCHEMA, tablesRows[i].TABLE_NAME, <<>>) >>])

MysqlColumnOfRow(row) ==
    [name |-> row.COLUMN_NAME,
     type |-> row.COLUMN_TYPE,
     nullable |-> row.IS_NULLABLE = "YES",
     default |-> row.COLUMN_DEFAULT,
     isPrimaryKey |-> row.COLUMN_KEY = "PRI",
     isUnique |-> row.COLUMN_KEY = "UNI",
     isGenerated |-> row.EXTRA = "auto_increment",
     comment |-> <<>>]

RECURSIVE MysqlAttachColumns(_, _, _)
\* the loop over cols
MysqlAttachColumns(rows, i, tablesMap) ==
    IF i > Len(rows) THEN tablesMap
    ELSE LET row == rows[i]
             key == rowKey(row.TABLE_SCHEMA, row.TABLE_NAME)
         IN  IF ~MapHas(tablesMap, key) THEN MysqlAttachColumns(rows, i + 1, tablesMap)
             ELSE LET t == MapGet(tablesMap, key)
                  IN  MysqlAttachColumns(rows, i + 1,
                        MapSet(tablesMap, key,
                           [t EXCEPT !.columns = Append(@, MysqlColumnOfRow(row))]))

RECURSIVE MysqlAttachConstraints(_, _, _)
\* the loop over constraints (PRIMARY KEY and UNIQUE rows)
MysqlAttachConstraints(rows, i, tablesMap) ==
    IF i > Len(rows) THEN tablesMap
    ELSE LET row == rows[i]
             key == rowKey(row.TABLE_SCHEMA, row.TABLE_NAME)
             colsArr == Split(row.cols)
         IN  IF ~MapHas(tablesMap, key) THEN MysqlAttachConstraints(rows, i + 1, tablesMap)
             ELSE LET t == MapGet(tablesMap, key)
                      next ==
                        IF row.CONSTRAINT_TYPE = "PRIMARY KEY"
                        THEN [t EXCEPT
                                !.primaryKey = << [name |-> row.CONSTRAINT_NAME,
                                                   columns |-> colsArr] >>,
                                !.columns = FlagColumns(@, colsArr, "isPrimaryKey")]
                        ELSE IF row.CONSTRAINT_TYPE = "UNIQUE"
                        THEN [t EXCEPT
                                !.uniques = Append(@, [name |-> row.CONSTRAINT_NAME,
                                                       columns |-> colsArr]),
                                !.columns = FlagColumns(@, colsArr, "isUnique")]
                        ELSE t
                  IN  MysqlAttachConstraints(rows, i + 1, MapSet(tablesMap, key, next))

MysqlForeignKeyOfRow(row) ==
    [name |-> row.CONSTRAINT_NAME,
     columns |-> <<row.COLUMN_NAME>>,
     refTable |-> row.REFERENCED_TABLE_NAME,
     refSchema |-> row.REFERENCED_TABLE_SCHEMA,
     refColumns |-> <<row.REFERENCED_COLUMN_NAME>>,
     onUpdate |-> <<>>,
     onDelete |-> <<>>]

RECURSIVE MysqlAttachForeignKeys(_, _, _)
\* the loop over fkRows: acc holds tablesMap and relationships
MysqlAttachForeignKeys(rows, i, acc) ==
    IF i > Len(rows) THEN acc
    ELSE LET row == rows[i]
             key == rowKey(row.TABLE_SCHEMA, row.TABLE_NAME)
         IN  IF ~MapHas(acc.tablesMap, key) THEN MysqlAttachForeignKeys(rows, i + 1, acc)
             ELSE LET t  == MapGet(acc.tablesMap, key)
                      fk == MysqlForeignKeyOfRow(row)
                  IN  MysqlAttachForeignKeys(rows, i + 1,
                        [tablesMap |->
                            MapSet(acc.tablesMap, key,
                                   [t EXCEPT !.foreignKeys = Append(@, fk)]),
                         relationships |->
                            Append(acc.relationships,
                               [name |-> t.name \o "_" \o fk.refTable,
                                type |-> "many_to_one",
                                from |-> [table |-> t.name, schema |-> t.schema,
                                          columns |-> fk.columns],
                                to   |-> [table |-> fk.refTable, schema |-> fk.refSchema,
                                          columns |-> fk.refColumns],
                                fkName |-> fk.name])])

\* idxRows.map(...)
MysqlIndexesOf(idxRows) ==
    [i \in 1..Len(idxRows) |->
        [name |-> idxRows[i].INDEX_NAME, schema |-> idxRows[i].TABLE_SCHEMA,
         table |-> idxRows[i].TABLE_NAME,
         columns |-> IF idxRows[i].cols = "" THEN <<>> ELSE Split(idxRows[i].cols),
         isUnique |-> idxRows[i].NON_UNIQUE = 0,
         isPrimary |-> idxRows[i].INDEX_NAME = "PRIMARY",
         method |-> <<>>, definition |-> <<>>]]

\* the loop over enumRows: one enum per enum column, named after the column
MysqlEnumsOf(enumRows) ==
    [i \in 1..Len(enumRows) |->
        [name |-> enumRows[i].COLUMN_NAME, schema |-> enumRows[i].TABLE_SCHEMA,
         values |-> EnumValues(enumRows[i].COLUMN_TYPE), comment |-> <<>>]]

\* extractMysql on the rows the queries returned
extractMysql(rows) ==
    LET withCols == MysqlAttachColumns(rows.cols, 1, MysqlTablesMap(rows.tablesRows))
        withCons == MysqlAttachConstraints(rows.constraints, 1, withCols)
        withFks  == MysqlAttachForeignKeys(rows.fkRows, 1,
                        [tablesMap |-> withCons, relationships |-> <<>>])
        tables   == MapValues(withFks.tablesMap)
        mapped   == mapInterfaces(<<>>, tables)
    IN  SchemaExport([db |-> [engine |-> "mysql"],
                      source |-> [filters |-> [includeSchemas |-> <<"shop">>,
                                               excludeTables |-> <<>>]]],
                     MysqlEnumsOf(rows.enumRows),
                     tables,
                     <<>>,
                     withFks.relationships,
                     MysqlIndexesOf(rows.idxRows),
                     mapped.interfacesMapped,
                     mapped.warnings)

MysqlInit ==
    /\ pc = "mysql"
    /\ mysqlRows \in MysqlDatabases
    /\ mysqlResult = <<>>
    /\ DiffIdle
    /\ ExtractIdle
    /\ ServerIdle
    /\ MapIdle
    /\ ScanIdle
    /\ ConcIdle
    /\ TxnIdle

\* the queries succeed: the snapshot is built and returned
MysqlReturn ==
    /\ pc = "mysql"
    /\ mysqlResult' = extractMysql(mysqlRows)
    /\ pc' = "mysql-extracted"
    /\ UNCHANGED <<mysqlRows, diffVars, extractVars, serverVars, mapVars, scanVars, concVars, txnVars>>

\* a query rejects: extractMysql throws and returns no snapshot
MysqlThrow ==
    /\ pc = "mysql"
    /\ pc' = "mysql-threw"
    /\ UNCHANGED <<mysqlRows, mysqlResult, diffVars, extractVars, serverVars, mapVars, scanVars, concVars, txnVars>>

MysqlNext == MysqlReturn \/ MysqlThrow

SpecMysql == MysqlInit /\ [][MysqlNext]_vars

-----------------------------------------------------------------------------
(* Properties of the normalizers' enums and indexes (checked under          *)
(* SpecMysql).                                                              *)

MysqlExtracted == pc = "mysql-extracted"

\* C24: in the snapshot a normalizer produces, no two entries of enums have
\* the same (schema, name) and no two entries of indexes the same (schema,
\* table, name).
C24_EnumAndIndexKeysUnique ==
    MysqlExtracted =>
        /\ \A i, j \in 1..Len(mysqlResult.enums) :
              (mysqlResult.enums[i].schema = mysqlResult.enums[j].schema
               /\ mysqlResult.enums[i].name = mysqlResult.enums[j].name) => i = j
        /\ \A i, j \in 1..Len(mysqlResult.indexes) :
              (mysqlResult.indexes[i].schema = mysqlResult.indexes[j].schema
               /\ mysqlResult.indexes[i].table = mysqlResult.indexes[j].table
               /\ mysqlResult.indexes[i].name = mysqlResult.indexes[j].name) => i = j

-----------------------------------------------------------------------------
(* scan.ts: the interface scanner. A source text is a sequence of lines,    *)
(* each one declaration (interface Name { ... }, or type Name = { ... };)   *)
(* or other code; the block of a declaration is the sequence of its member  *)
(* lines.                                                                   *)

\* most lines of a source file
MaxDecls == 2

\* most entries of an archive
MaxEntries == 2

\* path.extname(filePath).toLowerCase() on the entry names the model uses
ExtName(filePath) ==
    CASE filePath = "src/a.ts"  -> ".ts"
      [] filePath = "src/b.TSX" -> ".tsx"
      [] filePath = "README.md" -> ".md"
      [] OTHER                  -> ""

isTsFile(filePath) == ExtName(filePath) \in {".ts", ".tsx"}

\* entry.entryName.replace(/\\/g, "/") on the entry names the model uses
SlashPath(entryName) ==
    CASE entryName = "src\\b.TSX" -> "src/b.TSX"
      [] OTHER                    -> entryName

\* /\bnull\b/.test(rawType) || /\bundefined\b/.test(rawType) on the type
\* texts the model uses
MentionsNull(rawType) == rawType \in {"string | null", "number | undefined"}

\* extractFields(block): the member lines name?: type
extractFields(block) ==
    [i \in 1..Len(block) |->
        [name |-> block[i].name, type |-> block[i].rawType,
         nullable |-> block[i].optional \/ MentionsNull(block[i].rawType)]]

\* the matches of a declaration regex in source, in the order of their index
MatchAll(source, kind) ==
    LET lines == SelectSeq([n \in 1..Len(source) |-> n],
                           LAMBDA n : source[n].kind = kind)
    IN  [i \in 1..Len(lines) |-> [index |-> lines[i], decl |-> source[lines[i]]]]

\* the InterfaceDef pushed for one regex match; lineNumberAt is the line of
\* the match
InterfaceOfMatch(match, relativePath) ==
    [name |-> match.decl.name,
     source |-> relativePath \o ":" \o ToString(match.index),
     fields |-> extractFields(match.decl.block),
     mappedTo |-> <<>>]

\* the loop over the matches of interfaceRegex, then the loop over the
\* matches of typeRegex
extractInterfacesFromSource(source, relativePath) ==
    LET byInterface == MatchAll(source, "interface")
        byType      == MatchAll(source, "type")
    IN  [i \in 1..Len(byInterface) |-> InterfaceOfMatch(byInterface[i], relativePath)]
        \o [i \in 1..Len(byType) |-> InterfaceOfMatch(byType[i], relativePath)]

\* the loop over zip.getEntries()
scanInterfacesFromZip(entries) ==
    Flatten([i \in 1..Len(entries) |->
        IF entries[i].isDirectory \/ ~isTsFile(SlashPath(entries[i].entryName))
        THEN <<>>
        ELSE extractInterfacesFromSource(entries[i].data,
                                         SlashPath(entries[i].entryName))])

\* the lines of a source file
ScanLines ==
    { [kind |-> "interface", name |-> "User",
       block |-> << [name |-> "id", optional |-> FALSE, rawType |-> "number"],
                    [name |-> "email", optional |-> TRUE, rawType |-> "string"] >>],
      [kind |-> "type", name |-> "Order",
       block |-> << [name |-> "note", optional |-> FALSE, rawType |-> "string | null"] >>],
      [kind |-> "code", name |-> "", block |-> <<>>] }

ZipEntry(entryName, isDirectory, data) ==
    [entryName |-> entryName, isDirectory |-> isDirectory, data |-> data]

\* a directory, a file that is not TypeScript, src/a.ts with every source text,
\* and a file whose name has a backslash and an upper-case extension
ZipEntries ==
    { ZipEntry("src/", TRUE, <<>>),
      ZipEntry("README.md", FALSE,
               << [kind |-> "interface", name |-> "Doc", block |-> <<>>] >>),
      ZipEntry("src\\b.TSX", FALSE,
               << [kind |-> "interface", name |-> "Widget", block |-> <<>>] >>) }
    \cup { ZipEntry("src/a.ts", FALSE, source) : source \in SeqsUpTo(ScanLines, MaxDecls) }

ScanInit ==
    /\ pc = "scan"
    /\ scanZip \in SeqsUpTo(ZipEntries, MaxEntries)
    /\ scanResult = <<>>
    /\ DiffIdle
    /\ ExtractIdle
    /\ ServerIdle
    /\ MapIdle
    /\ MysqlIdle
    /\ ConcIdle
    /\ TxnIdle

\* scanInterfacesFromZip(zipBuffer)
ScanCall ==
    /\ pc = "scan"
    /\ scanResult' = scanInterfacesFromZip(scanZip)
    /\ pc' = "scanned"
    /\ UNCHANGED <<scanZip, diffVars, extractVars, serverVars, mapVars, mysqlVars, concVars, txnVars>>

ScanNext == ScanCall

SpecScan == ScanInit /\ [][ScanNext]_vars

-----------------------------------------------------------------------------
(* Properties of the interface scanner (checked under SpecScan).            *)

Scanned == pc = "scanned"

\* the declarations of a source text in the order of their offsets
DeclarationsOf(data, entryPath) ==
    LET lines == SelectSeq([n \in 1..Len(data) |-> n],
                           LAMBDA n : data[n].kind \in {"interface", "type"})
    IN  [i \in 1..Len(lines) |->
            [name |-> data[lines[i]].name,
             source |-> entryPath \o ":" \o ToString(lines[i])]]

\* the declarations of the TypeScript files of the archive: file encounter
\* order, then declaration order within the file
InDeclarationOrder ==
    Flatten([i \in 1..Len(scanZip) |->
        IF scanZip[i].isDirectory \/ ExtName(SlashPath(scanZip[i].entryName)) \notin {".ts", ".tsx"}
        THEN <<>>
        ELSE DeclarationsOf(scanZip[i].data, SlashPath(scanZip[i].entryName))])

\* C25: scanInterfacesFromZip returns the definitions in file-encounter order
\* and, within one file, in the order of the declarations in the source text,
\* whether written with the interface keyword or as a type alias.
C25_DeclarationOrder ==
    Scanned =>
        [i \in 1..Len(scanResult) |->
            [name |-> scanResult[i].name, source |-> scanResult[i].source]]
        = InDeclarationOrder

-----------------------------------------------------------------------------
(* Further properties of the server (checked under Spec).                   *)

\* C26: extraction does not snapshot: a POST /extract that answers with a
\* schema leaves the snapshot store and the persisted file as they were.
C26_ExtractLeavesStoreUnchanged ==
    [][(\E id \in SnapshotIds : reply' = Reply("extract", id, 200))
          => (snapshots' = snapshots /\ disk' = disk)]_vars

-----------------------------------------------------------------------------
(* The server under concurrent requests. A handler runs without interruption *)
(* from one await to the next: POST /extract awaits the extraction and then *)
(* stores; POST /interfaces/import and DELETE /snapshots/:id have no await. *)

\* most requests in flight
MaxRequests == 3

\* the schema an extraction returns
ConcSchema ==
    extractSchema([includeSchemas |-> <<"app", "public">>, excludeTables |-> <<>>],
                  [tables |-> << TableRow("app", "users"), TableRow("public", "users") >>,
                   columns |-> ColumnRows, viewColumns |-> ColumnRows,
                   constraints |-> <<>>, indexes |-> <<>>,
                   enums |-> <<>>, views |-> <<>>])

\* loadSnapshots(): the store as read from snapshots.json at start
LoadedStore == << <<"s1", ConcSchema>> >>

\* the requests a client may send at once
ConcRequests ==
    { [op |-> "import", id |-> "s1", interfaces |-> l, at |-> "received"] :
         l \in InterfaceLists }
    \cup { [op |-> "delete", id |-> "s1", interfaces |-> <<>>, at |-> "received"],
           [op |-> "extract", id |-> "", interfaces |-> <<>>, at |-> "received"] }

\* crypto.randomUUID() of the i-th request: never an id in use
FreshId(i) == "u" \o ToString(i)

\* the store as it was when the requests arrived, read in place of the store
\* as it is when the handler runs
StoreReadAtArrival(store, atArrival) == atArrival

\* snapshots.get(body.snapshotId) reads the store as it is when the handler runs
StoreRead(store, atArrival) == store

\* the store after the POST /interfaces/import handler of request r
StoreAfterImport(store, r) ==
    LET seen == StoreRead(store, LoadedStore)
    IN  IF ~MapHas(seen, r.id) THEN store
        ELSE MapSet(store, r.id, ImportedSnapshot(MapGet(seen, r.id), r.interfaces))

ConcInit ==
    /\ pc = "concurrent"
    /\ snapshots = LoadedStore
    /\ disk = SnapshotFile(LoadedStore, 0)
    /\ reply = <<>>
    /\ inflight \in SeqsUpTo(ConcRequests, MaxRequests)
    /\ DiffIdle
    /\ ExtractIdle
    /\ MapIdle
    /\ MysqlIdle
    /\ ScanIdle
    /\ TxnIdle

\* POST /extract up to its await: the extraction runs, the store is not read
ConcExtractAwait ==
    \E i \in 1..Len(inflight) :
        /\ inflight[i].op = "extract" /\ inflight[i].at = "received"
        /\ inflight' = [inflight EXCEPT ![i].at = "awaiting"]
        /\ UNCHANGED <<pc, snapshots, disk, reply, diffVars, extractVars, mapVars,
                       mysqlVars, scanVars, txnVars>>

\* POST /extract after its await: store under a fresh id, persist, answer
ConcExtractStore ==
    \E i \in 1..Len(inflight) :
        /\ inflight[i].op = "extract" /\ inflight[i].at = "awaiting"
        /\ snapshots' = MapSet(snapshots, FreshId(i), ConcSchema)
        /\ disk' = persistSnapshots(snapshots', disk)
        /\ reply' = Reply("extract", FreshId(i), 200)
        /\ inflight' = [inflight EXCEPT ![i].at = "done", ![i].id = FreshId(i)]
        /\ UNCHANGED <<pc, diffVars, extractVars, mapVars, mysqlVars, scanVars, txnVars>>

\* POST /interfaces/import: the whole handler
ConcImport ==
    \E i \in 1..Len(inflight) :
        /\ inflight[i].op = "import" /\ inflight[i].at = "received"
        /\ snapshots' = StoreAfterImport(snapshots, inflight[i])
        /\ disk' = IF MapHas(StoreRead(snapshots, LoadedStore), inflight[i].id)
                   THEN persistSnapshots(snapshots', disk) ELSE disk
        /\ reply' = Reply("import", inflight[i].id,
                          IF MapHas(StoreRead(snapshots, LoadedStore), inflight[i].id)
                          THEN 200 ELSE 404)
        /\ inflight' = [inflight EXCEPT ![i].at = "done"]
        /\ UNCHANGED <<pc, diffVars, extractVars, mapVars, mysqlVars, scanVars, txnVars>>

\* DELETE /snapshots/:id: the whole handler
ConcDelete ==
    \E i \in 1..Len(inflight) :
        /\ inflight[i].op = "delete" /\ inflight[i].at = "received"
        /\ snapshots' = MapDelete(snapshots, inflight[i].id)
        /\ disk' = FileAfterDelete(MapHas(snapshots, inflight[i].id), snapshots', disk)
        /\ reply' = Reply(IF MapHas(snapshots, inflight[i].id)
                          THEN "deleted" ELSE "not-deleted", inflight[i].id, 200)
        /\ inflight' = [inflight EXCEPT ![i].at = "done"]
        /\ UNCHANGED <<pc, diffVars, extractVars, mapVars, mysqlVars, scanVars, txnVars>>

ConcNext == ConcExtractAwait \/ ConcExtractStore \/ ConcImport \/ ConcDelete

SpecConcurrent == ConcInit /\ [][ConcNext]_vars

-----------------------------------------------------------------------------
(* Properties of the server under concurrent requests (checked under        *)
(* SpecConcurrent).                                                         *)

AllDone == \A i \in 1..Len(inflight) : inflight[i].at = "done"

\* the store after request i of the list is served alone, start to end
ServedAlone(store, i) ==
    LET r == inflight[i]
    IN  CASE r.op = "import" ->
                IF ~MapHas(store, r.id) THEN store
                ELSE MapSet(store, r.id,
                            ImportedSnapshot(MapGet(store, r.id), r.interfaces))
          [] r.op = "delete" -> MapDelete(store, r.id)
          [] OTHER -> MapSet(store, FreshId(i), ConcSchema)

RECURSIVE ServedInOrder(_, _)
\* the store after the requests are served one at a time in the given order
ServedInOrder(store, order) ==
    IF order = <<>> THEN store
    ELSE ServedInOrder(ServedAlone(store, Head(order)), Tail(order))

\* the orders in which the requests can be served one at a time
Orders ==
    { f \in [1..Len(inflight) -> 1..Len(inflight)] :
        \A a, b \in 1..Len(inflight) : f[a] = f[b] => a = b }

\* C27: under any interleaving of concurrent import, extract and delete
\* requests, once all are answered the store is the one some serial order of
\* the requests produces (each import reads, maps and writes back in one
\* step), and a snapshot that a delete removed is not in the store again.
C27_RequestsSerialize ==
    /\ AllDone => \E order \in Orders : snapshots = ServedInOrder(LoadedStore, order)
    /\ \A i \in 1..Len(inflight) :
          (inflight[i].op = "delete" /\ inflight[i].at = "done")
              => ~MapHas(snapshots, inflight[i].id)

\* two imports with different interface lists and an extraction, all answered:
\* the store holds the imported snapshot and the extracted one
C27_Witness ==
    /\ AllDone
    /\ Len(inflight) = 3
    /\ \E i, j, k \in 1..3 :
          /\ inflight[i].op = "import" /\ inflight[j].op = "import"
          /\ inflight[i].interfaces # inflight[j].interfaces
          /\ inflight[i].interfaces # <<>> /\ inflight[j].interfaces # <<>>
          /\ inflight[k].op = "extract"
    /\ Len(snapshots) = 2
    /\ MapGet(snapshots, "s1").warnings # <<>>

-----------------------------------------------------------------------------
(* Removed entities in the report diffSchemas returns (checked under        *)
(* SpecDiff).                                                               *)

\* the column names and types of the two snapshots
DiffColumnNames ==
    UNION {ColumnNames(t) : t \in Range(snapA.tables) \cup Range(snapB.tables)}

DiffColumnTypes ==
    UNION { {c.type : c \in Range(t.columns)} :
              t \in Range(snapA.tables) \cup Range(snapB.tables) }

\* the entries tables.changed can hold for the table of key k
ChangedEntriesOf(k) ==
    { k \o " (" \o Join(names, ",") \o ")" :
        names \in SeqsUpTo(DiffColumnNames, Cardinality(DiffColumnNames)) }

\* the entries breaking can hold for the table of key k
BreakingEntriesOf(k) ==
    UNION { {MsgNotNull(k, n), MsgRemoved(k, n)}
            \cup {MsgType(k, n, ta, tb) : ta \in DiffColumnTypes, tb \in DiffColumnTypes} :
            n \in DiffColumnNames }

\* the keys of the tables A has and B has not
GoneTables == TableKeys(snapA) \ TableKeys(snapB)

\* C28: a table A has and B has not is reported in tables.removed and nowhere
\* else: no columnChanges entry, no tables.changed entry and no breaking entry
\* is about it; every breaking entry is about a column of a table both
\* snapshots have, so removed enums, indexes, relationships and interfaces add
\* nothing to breaking.
C28_RemovedTableOnlyInRemoved ==
    Diffed =>
        /\ \A k \in GoneTables :
              /\ k \in Range(report.tables.removed)
              /\ k \notin Range(report.tables.added)
              /\ \A i \in 1..Len(report.tables.columnChanges) :
                    report.tables.columnChanges[i].table # k
              /\ Range(report.tables.changed) \cap ChangedEntriesOf(k) = {}
              /\ Range(report.breaking) \cap BreakingEntriesOf(k) = {}
        /\ \A m \in Range(report.breaking) :
              \E k \in TableKeys(snapA) \cap TableKeys(snapB) : m \in BreakingEntriesOf(k)

\* public.orders with its column is removed while public.users changes in a
\* breaking way, and an enum, an index, a relationship and an interface are
\* removed too
C28_Witness ==
    /\ Diffed
    /\ "public.orders" \in GoneTables
    /\ \E t \in Range(snapA.tables) : keyTable(t) = "public.orders" /\ t.columns # <<>>
    /\ report.tables.removed = <<"public.orders">>
    /\ report.tables.changed # <<>>
    /\ report.breaking # <<>>
    /\ report.enums.removed # <<>>
    /\ report.indexes.removed # <<>>
    /\ report.relationships.removed # <<>>
    /\ report.interfaces.removed # <<>>

-----------------------------------------------------------------------------
(* Requests that name a snapshot the store does not hold (checked under     *)
(* Spec).                                                                   *)

\* the request answered by this step names id in its path or body
StepNames(id) ==
    \/ reply'.op \in {"get", "import", "deleted", "not-deleted"} /\ reply'.id = id
    \/ reply'.op = "diff"
       /\ \E other \in SnapshotIds : reply'.id \in {id \o "/" \o other, other \o "/" \o id}

\* C29: a request that names an id the store does not hold leaves the store
\* and snapshots.json as they are: GET /snapshots/:id, POST /interfaces/import
\* and GET /snapshots/:id/diff/:otherId answer 404, and DELETE answers
\* deleted:false without writing the file.
C29_UnknownIdLeavesStore ==
    [][\A id \in SnapshotIds :
          (~MapHas(snapshots, id) /\ StepNames(id))
             => /\ snapshots' = snapshots
                /\ disk' = disk
                /\ reply'.op \in {"get", "import", "diff"} => reply'.status = 404
                /\ reply'.op # "deleted"]_vars

\* DELETE of s2 answered deleted:false while the store holds s1 alone and
\* snapshots.json has been written once, by the extraction of s1
C29_Witness ==
    /\ pc = "serve"
    /\ reply = Reply("not-deleted", "s2", 200)
    /\ MapHas(snapshots, "s1")
    /\ ~MapHas(snapshots, "s2")
    /\ disk = SnapshotFile(snapshots, 1)

-----------------------------------------------------------------------------
(* extract.ts: extractSchema statement by statement. client.connect(), the  *)
(* statements inside try, ROLLBACK in catch and client.end() in finally are *)
(* awaited one after another; each of them resolves or rejects.             *)

\* the statements sent inside try, in the order of the code
Statements ==
    << "BEGIN", "SET LOCAL default_transaction_read_only = on",
       "SHOW server_version", "tables", "tableMeta", "columns", "constraints",
       "indexes", "enums", "views", "viewColumns", "COMMIT" >>

\* the error a rejected call rejects with
ErrorOf(call) == "error: " \o call

\* one call on the connection and how it settled
Sent(call, outcome) == <<call, outcome>>

\* the connection before client.connect(): nothing sent, nothing caught, no
\* completion of the function decided, client.end() not called
NewClient == [next |-> 1, log |-> <<>>, caught |-> <<>>, completion |-> <<>>, ends |-> 0]

TxnInit ==
    /\ pc = "txn-connect"
    /\ request \in ServerRequests
    /\ catalog \in ServerCatalogs
    /\ result = <<>>
    /\ client = NewClient
    /\ DiffIdle
    /\ ServerIdle
    /\ MapIdle
    /\ MysqlIdle
    /\ ScanIdle
    /\ ConcIdle

\* await client.connect() resolves
TxnConnect ==
    /\ pc = "txn-connect"
    /\ client' = [client EXCEPT !.log = Append(@, Sent("connect", "ok"))]
    /\ pc' = "txn-try"
    /\ UNCHANGED <<request, catalog, result, diffVars, serverVars, mapVars, mysqlVars, scanVars, concVars>>

\* await client.connect() rejects: it is outside try, the function throws
TxnConnectFails ==
    /\ pc = "txn-connect"
    /\ client' = [client EXCEPT !.log = Append(@, Sent("connect", "error")),
                                !.completion = <<"throw", ErrorOf("connect")>>]
    /\ pc' = "txn-threw"
    /\ UNCHANGED <<request, catalog, result, diffVars, serverVars, mapVars, mysqlVars, scanVars, concVars>>

\* the next statement inside try resolves; after COMMIT, return schemaExport
\* is pending and finally runs
TxnQuery ==
    /\ pc = "txn-try"
    /\ client' = [client EXCEPT
                    !.log = Append(@, Sent(Statements[client.next], "ok")),
                    !.next = @ + 1,
                    !.completion = IF client.next = Len(Statements)
                                   THEN <<"return">> ELSE @]
    /\ pc' = IF client.next = Len(Statements) THEN "txn-finally" ELSE "txn-try"
    /\ UNCHANGED <<request, catalog, result, diffVars, serverVars, mapVars, mysqlVars, scanVars, concVars>>

\* the next statement inside try rejects: catch (err)
TxnQueryFails ==
    /\ pc = "txn-try"
    /\ client' = [client EXCEPT
                    !.log = Append(@, Sent(Statements[client.next], "error")),
                    !.caught = <<ErrorOf(Statements[client.next])>>]
    /\ pc' = "txn-catch"
    /\ UNCHANGED <<request, catalog, result, diffVars, serverVars, mapVars, mysqlVars, scanVars, concVars>>

\* await client.query("ROLLBACK") resolves; throw err is pending
TxnRollback ==
    /\ pc = "txn-catch"
    /\ client' = [client EXCEPT !.log = Append(@, Sent("ROLLBACK", "ok")),
                                !.completion = <<"throw", client.caught[1]>>]
    /\ pc' = "txn-finally"
    /\ UNCHANGED <<request, catalog, result, diffVars, serverVars, mapVars, mysqlVars, scanVars, concVars>>

\* await client.query("ROLLBACK") rejects: throw err is not reached, the catch
\* block completes with the rejection
TxnRollbackFails ==
    /\ pc = "txn-catch"
    /\ client' = [client EXCEPT !.log = Append(@, Sent("ROLLBACK", "error")),
                                !.completion = <<"throw", ErrorOf("ROLLBACK")>>]
    /\ pc' = "txn-finally"
    /\ UNCHANGED <<request, catalog, result, diffVars, serverVars, mapVars, mysqlVars, scanVars, concVars>>

\* await client.end() resolves: the function completes as try or catch left it
TxnEnd ==
    /\ pc = "txn-finally"
    /\ client' = [client EXCEPT !.log = Append(@, Sent("end", "ok")),
                                !.ends = @ + 1]
    /\ result' = IF client.completion = <<"return">>
                 THEN extractSchema(request, catalog) ELSE result
    /\ pc' = IF client.completion = <<"return">> THEN "txn-returned" ELSE "txn-threw"
    /\ UNCHANGED <<request, catalog, diffVars, serverVars, mapVars, mysqlVars, scanVars, concVars>>

\* await client.end() rejects: the rejection replaces the pending completion
TxnEndFails ==
    /\ pc = "txn-finally"
    /\ client' = [client EXCEPT !.log = Append(@, Sent("end", "error")),
                                !.ends = @ + 1,
                                !.completion = <<"throw", ErrorOf("end")>>]
    /\ pc' = "txn-threw"
    /\ UNCHANGED <<request, catalog, result, diffVars, serverVars, mapVars, mysqlVars, scanVars, concVars>>

TxnNext ==
    \/ TxnConnect
    \/ TxnConnectFails
    \/ TxnQuery
    \/ TxnQueryFails
    \/ TxnRollback
    \/ TxnRollbackFails
    \/ TxnEnd
    \/ TxnEndFails

SpecTxn == TxnInit /\ [][TxnNext]_vars

-----------------------------------------------------------------------------
(* Properties of extractSchema statement by statement (checked under        *)
(* SpecTxn).                                                                *)

TxnDone == pc \in {"txn-returned", "txn-threw"}

WasSent(call, outcome) == Sent(call, outcome) \in Range(client.log)

\* C30: once client.connect() has succeeded, a snapshot is returned only
\* after COMMIT succeeded; when a statement inside try failed, ROLLBACK was
\* sent and the function throws the error of that statement; and when the
\* function has completed, client.end() has been called exactly once.
C30_TransactionProtocol ==
    /\ (pc = "txn-returned" \/ result # <<>>) => WasSent("COMMIT", "ok")
    /\ (TxnDone /\ client.caught # <<>>)
          => /\ WasSent("ROLLBACK", "ok") \/ WasSent("ROLLBACK", "error")
             /\ pc = "txn-threw"
             /\ client.completion = <<"throw", client.caught[1]>>
    /\ (TxnDone /\ WasSent("connect", "ok")) => client.ends = 1

====
